---- MODULE Spec2Model ----
(***************************************************************************)
(* Verification model of the agent platform back end:                      *)
(*   - services/workflow_engine.py : WorkflowEngine.execute, _build_dag,   *)
(*     _topological_sort, WorkflowContext                                  *)
(*   - core/chat.py, core/executor.py, api/routes/chat.py : the tool-use   *)
(*     loop of a chat turn and its event stream                            *)
(*   - api/routes/webhooks.py : the webhook receiver                       *)
(*   - api/deps.py, api/routes/api_trigger.py, api/routes/workflows.py,    *)
(*     services/rate_limiter.py : the workflow routes, the API-key trigger *)
(*     and its rate limiter                                                *)
(*   - a2a/server.py, a2a/task_store.py, api/routes/a2a.py : A2A tasks     *)
(*   - core/executor.py : a ToolExecutor shared by concurrent callers      *)
(*   - services/workflow_engine.py : WorkflowEngine._resolve_template      *)
(* Each subsystem has its own specification (SpecEngine, SpecChat,         *)
(* SpecWebhook, SpecApi, SpecRoutes, SpecA2A, SpecExecutor, SpecTemplate); *)
(* the variables of the other subsystems stay at their initial value.      *)
(***************************************************************************)
EXTENDS Integers, Sequences, FiniteSets, TLC

(***************************************************************************)
(* Bounds of the model.                                                    *)
(***************************************************************************)
\* longest edge list of a workflow
MaxEdges == 3

\* most tool calls in one response of the LLM
MaxToolCalls == 2

\* webhook requests handled in one behaviour
MaxRequests == 2

\* requests to the API-key trigger in one behaviour
MaxApiRequests == 3

\* requests to the workflow routes and the API-key trigger in one behaviour
\* that has both
MaxRouteRequests == 2

\* requests to the A2A task routes of one agent in one behaviour
MaxTaskRequests == 4

\* calls of ToolExecutor.execute in one behaviour
MaxExecutorCalls == 3

\* longest list of calls passed to ToolExecutor.execute_parallel
MaxBatch == 2

\* longest EXPR of a template "{{EXPR}}", in tokens
MaxExprLen == 3

\* task messages sent to the Celery worker in one behaviour
MaxJobs == 3

\* create_webhook_trigger requests in one behaviour
MaxCreates == 3

\* chat turns begun in the history model
MaxTurns == 3

\* rows of the schedule_triggers table
MaxScheduleTriggers == 2

(***************************************************************************)
(* Generic helpers: Python dicts are functions with a finite domain, lists *)
(* are sequences.                                                          *)
(***************************************************************************)
EmptyMap == [k \in {} |-> TRUE]

Put(m, k, v) == [x \in (DOMAIN m) \cup {k} |-> IF x = k THEN v ELSE m[x]]

Range(s) == {s[i] : i \in DOMAIN s}

SeqsUpTo(S, n) == UNION {[1..k -> S] : k \in 0..n}

(***************************************************************************)
(* State                                                                   *)
(***************************************************************************)
\* the workflow engine: one call of WorkflowEngine.execute
VARIABLES
  nodes,              \* workflow.nodes : the node ids, in list order
  edges,              \* workflow.edges : records [source, target], in list order
  pc,                 \* position of the running execute() call
  status,             \* execution.status
  node_results,       \* execution.node_results
  error,              \* execution.error ("" = None)
  started_at,         \* execution.started_at is set
  completed_at,       \* execution.completed_at is set
  context_results,    \* context._results
  local_node_results, \* the local node_results dict of execute()
  sorted_node_ids,    \* the result of _topological_sort
  pos,                \* how many ids of sorted_node_ids the loop has passed
  dispatched,         \* the ids handed to _execute_node, in order
  raised              \* <<node id, message>> of the dispatch that raised, or <<>>

engineVars == <<nodes, edges, pc, status, node_results, error, started_at,
                completed_at, context_results, local_node_results,
                sorted_node_ids, pos, dispatched, raised>>

\* one chat turn
VARIABLES
  mode,             \* "chat" (ChatService.chat) or "stream" (chat_stream_with_tools)
  cpc,              \* position of the turn: idle, llm, tools, ended
  iteration,        \* the loop counter of the tool loop
  llm_calls,        \* calls of llm.chat_with_tools made in the turn
  tool_calls,       \* response.tool_calls: the ids of the current response
  tc_index,         \* tool calls of the current response already executed
  tool_call_open,   \* stream: the tool_call event of the next call is out
  call_count,       \* executor._call_count
  executor_calls,   \* calls of executor.execute made in the turn
  tool_invocations, \* calls of tool.execute made in the turn
  db_messages,      \* the messages message_repo.create stored in the turn
  events,           \* the server-sent events of the turn, in order
  turn_result,      \* "none", "returned", "raised" (how the turn ended)
  last_outcome,     \* the outcome of the latest executor.execute
  single_ok         \* every response so far held one tool call, every tool succeeded

chatVars == <<mode, cpc, iteration, llm_calls, tool_calls, tc_index,
              tool_call_open, call_count, executor_calls, tool_invocations,
              db_messages, events, turn_result, last_outcome, single_ok>>

\* the webhook receiver
VARIABLES
  webhook_triggers, \* the webhook_triggers table: trigger id -> row
  job_queue,        \* the jobs execute_workflow_task.delay has enqueued
  now,              \* the clock (datetime.now), one tick per request
  request,          \* the webhook request handled last
  response          \* the status code of the response to it

webhookVars == <<webhook_triggers, job_queue, now, request, response>>

\* the workflow routes and the API-key trigger
VARIABLES
  workflows,      \* the workflows table: id -> row
  executions,     \* workflow id -> number of rows in workflow_executions
  zsets,          \* Redis: rate-limit key -> sorted set, a set of [member, score]
  clock,          \* the clock (datetime.now), in seconds
  api_calls,      \* connection -> the API-key request waiting for pipe.execute()
  api_jobs,       \* the jobs api_execute_workflow has enqueued
  budget,         \* requests the behaviour receives at most
  handled,        \* requests received so far
  last,           \* the request answered last, its response and what it saw
  allowed_calls   \* the calls of check_rate_limit that returned allowed = True

apiVars == <<workflows, executions, zsets, clock, api_calls, api_jobs,
             budget, handled, last, allowed_calls>>

\* the A2A tasks of one agent
VARIABLES
  contexts,       \* TaskStore._contexts: task id -> A2ATaskContext
  tasks,          \* TaskStore._tasks: task id -> task record
  runs,           \* the execute_task calls waiting for ChatService.chat
  task_requests,  \* requests received so far
  task_reply      \* the request answered last and what it returned

a2aVars == <<contexts, tasks, runs, task_requests, task_reply>>

\* a ToolExecutor and its callers
VARIABLES
  executor_count,   \* executor._call_count
  running,          \* the calls of execute that wait for their tool
  dispatched_tools, \* tools invoked since the counter was last reset
  exec_started,     \* calls of execute made so far
  exec_reply,       \* the ToolResult of the call of execute that returned last
  batch,            \* the call of execute_parallel in progress
  batch_reply       \* what the last call of execute_parallel got and returned

executorVars == <<executor_count, running, dispatched_tools, exec_started,
                  exec_reply, batch, batch_reply>>

\* one call of WorkflowEngine._resolve_template
VARIABLES
  resolution        \* the template and context passed and the value returned

templateVars == <<resolution>>

\* the Celery worker and the task messages sent to it
VARIABLES
  worker_jobs,        \* the task messages sent and what became of each
  worker_executions   \* the WorkflowExecution rows the tasks committed

workerVars == <<worker_jobs, worker_executions>>

\* the WebhookTrigger table and the requests that create triggers
VARIABLES
  trigger_rows,     \* the committed WebhookTrigger rows
  creates           \* the create_webhook_trigger requests and their responses

triggerVars == <<trigger_rows, creates>>

\* Conversation history: the messages table, the database clock behind
\* created_at, the message list of the first LLM call of the latest turn,
\* and the number of turns begun
VARIABLES
  messages_table,
  db_now,
  llm_request,
  turns

historyVars == <<messages_table, db_now, llm_request, turns>>

\* Workflow context: the WorkflowContext of the execution in progress and
\* the dict the node that ran last was given by to_dict()
VARIABLES
  wf_context,
  node_view

contextVars == <<wf_context, node_view>>

\* Schedule reconciliation: the schedule_triggers table, the beat schedule
\* map, whether a run of sync_schedule_triggers was the last thing to happen,
\* and the status code of the last trigger request
VARIABLES
  schedule_rows,
  beat_schedule,
  synced,
  schedule_reply

scheduleVars == <<schedule_rows, beat_schedule, synced, schedule_reply>>

vars == <<engineVars, chatVars, webhookVars, apiVars, a2aVars, executorVars,
          templateVars, workerVars, triggerVars, historyVars, contextVars, scheduleVars>>

\* what the steps of one subsystem leave alone
notEngineVars ==
  <<chatVars, webhookVars, apiVars, a2aVars, executorVars,
    templateVars, workerVars, triggerVars, historyVars, contextVars, scheduleVars>>

notChatVars ==
  <<engineVars, webhookVars, apiVars, a2aVars, executorVars,
    templateVars, workerVars, triggerVars, historyVars, contextVars, scheduleVars>>

notWebhookVars ==
  <<engineVars, chatVars, apiVars, a2aVars, executorVars,
    templateVars, workerVars, triggerVars, historyVars, contextVars, scheduleVars>>

notApiVars ==
  <<engineVars, chatVars, webhookVars, a2aVars, executorVars,
    templateVars, workerVars, triggerVars, historyVars, contextVars, scheduleVars>>

notA2AVars ==
  <<engineVars, chatVars, webhookVars, apiVars, executorVars,
    templateVars, workerVars, triggerVars, historyVars, contextVars, scheduleVars>>

notExecutorVars ==
  <<engineVars, chatVars, webhookVars, apiVars, a2aVars,
    templateVars, workerVars, triggerVars, historyVars, contextVars, scheduleVars>>

notTemplateVars ==
  <<engineVars, chatVars, webhookVars, apiVars, a2aVars, executorVars,
    workerVars, triggerVars, historyVars, contextVars, scheduleVars>>

notWorkerVars ==
  <<engineVars, chatVars, webhookVars, apiVars, a2aVars, executorVars,
    templateVars,
    triggerVars, historyVars, contextVars, scheduleVars>>

notTriggerVars ==
  <<engineVars, chatVars, webhookVars, apiVars, a2aVars, executorVars,
    templateVars, workerVars,
    historyVars, contextVars, scheduleVars>>

notHistoryVars ==
  <<engineVars, chatVars, webhookVars, apiVars, a2aVars, executorVars,
    templateVars, workerVars, triggerVars,
    contextVars, scheduleVars>>

notContextVars ==
  <<engineVars, chatVars, webhookVars, apiVars, a2aVars, executorVars,
    templateVars, workerVars, triggerVars, historyVars,
    scheduleVars>>

notScheduleVars ==
  <<engineVars, chatVars, webhookVars, apiVars, a2aVars, executorVars,
    templateVars, workerVars, triggerVars, historyVars, contextVars>>

(***************************************************************************)
(* Workflow engine                                                         *)
(***************************************************************************)

\* Node ids of the workflows examined.  A workflow's nodes are a prefix of
\* AllNodeIds: ids are labels, so every workflow over at most three distinct
\* non-empty ids is one of these up to renaming.  An id that is not in the
\* prefix is an unknown endpoint when an edge names it.
AllNodeIds == <<"a", "b", "c">>

\* The values edge.get("source") / edge.get("target") can take: a node id, or
\* a falsy value ("" stands for a missing key, None or the empty string).
Endpoints == Range(AllNodeIds) \cup {""}

EdgeSet == [source : Endpoints, target : Endpoints]

\* str(e) of an exception raised inside _execute_node
NodeErrors == {"TypeError: unsupported operand", "KeyError: 'id'"}

CircularMessage == "Circular dependency detected in workflow"

\* What _execute_node returns for a node (an opaque value per node).
ExecuteNodeValue(n) == [value |-> n]

\* dag is [keys |-> the dict's keys in insertion order,
\*         deps |-> key -> list of the sources the key depends on]
RECURSIVE AddEdges(_, _, _)
AddEdges(dag, es, i) ==
  IF i > Len(es) THEN dag
  ELSE LET source == es[i].source
           target == es[i].target
       IN IF source # "" /\ target # ""
          THEN LET \* dag[target] on a defaultdict inserts a missing key
                   keys1 == IF target \in Range(dag.keys) THEN dag.keys
                            ELSE Append(dag.keys, target)
                   deps1 == IF target \in DOMAIN dag.deps THEN dag.deps
                            ELSE Put(dag.deps, target, <<>>)
                   deps2 == IF source \in Range(deps1[target]) THEN deps1
                            ELSE Put(deps1, target, Append(deps1[target], source))
               IN AddEdges([keys |-> keys1, deps |-> deps2], es, i + 1)
          ELSE AddEdges(dag, es, i + 1)

RECURSIVE AddNodes(_, _, _)
AddNodes(dag, ns, i) ==
  IF i > Len(ns) THEN dag
  ELSE IF ns[i] \in DOMAIN dag.deps THEN AddNodes(dag, ns, i + 1)
  ELSE AddNodes([keys |-> Append(dag.keys, ns[i]),
                 deps |-> Put(dag.deps, ns[i], <<>>)], ns, i + 1)

\* build_dag with the direction of the edges confused: the source is made to
\* depend on the target
build_dag_reversed(ns, es) ==
  AddEdges(AddNodes([keys |-> <<>>, deps |-> EmptyMap], ns, 1),
           [i \in DOMAIN es |-> [source |-> es[i].target, target |-> es[i].source]],
           1)

build_dag(ns, es) ==
  AddEdges(AddNodes([keys |-> <<>>, deps |-> EmptyMap], ns, 1), es, 1)

\* the inner for loop of Kahn's algorithm: st is [in_degree, queue]
RECURSIVE Relax(_, _, _, _)
Relax(dag, current, st, i) ==
  IF i > Len(dag.keys) THEN st
  ELSE LET node_id == dag.keys[i]
       IN IF current \in Range(dag.deps[node_id])
          THEN LET d == st.in_degree[node_id] - 1
                   st1 == [in_degree |-> [st.in_degree EXCEPT ![node_id] = d],
                           queue |-> IF d = 0 THEN Append(st.queue, node_id)
                                     ELSE st.queue]
               IN Relax(dag, current, st1, i + 1)
          ELSE Relax(dag, current, st, i + 1)

RECURSIVE Kahn(_, _, _)
Kahn(dag, st, result) ==
  IF st.queue = <<>> THEN result
  ELSE LET current == Head(st.queue)
           st1 == Relax(dag, current,
                        [in_degree |-> st.in_degree, queue |-> Tail(st.queue)], 1)
       IN Kahn(dag, st1, Append(result, current))

\* topological_sort without the final length check
topological_sort_unchecked(dag) ==
  LET in_degree == [k \in DOMAIN dag.deps |-> Len(dag.deps[k])]
      queue == SelectSeq(dag.keys, LAMBDA k : in_degree[k] = 0)
      result == Kahn(dag, [in_degree |-> in_degree, queue |-> queue], <<>>)
  IN [ok |-> TRUE, order |-> result]

\* [ok |-> FALSE] stands for the ValueError
topological_sort(dag) ==
  LET in_degree == [k \in DOMAIN dag.deps |-> Len(dag.deps[k])]
      queue == SelectSeq(dag.keys, LAMBDA k : in_degree[k] = 0)
      result == Kahn(dag, [in_degree |-> in_degree, queue |-> queue], <<>>)
  IN IF Len(result) # Len(dag.keys)
     THEN [ok |-> FALSE, order |-> <<>>]
     ELSE [ok |-> TRUE, order |-> result]

\* node_map.get(node_id): ids of sorted_node_ids that are no node are skipped
InNodeMap(n) == n \in Range(nodes)

\* the ids the for loop has still to visit, the ones it skips left out
Remaining ==
  SelectSeq(SubSeq(sorted_node_ids, pos + 1, Len(sorted_node_ids)), InNodeMap)

\* the position in sorted_node_ids of the next id the loop dispatches
NextPos == CHOOSE i \in (pos + 1)..Len(sorted_node_ids) :
             /\ InNodeMap(sorted_node_ids[i])
             /\ \A j \in (pos + 1)..(i - 1) : ~InNodeMap(sorted_node_ids[j])

EngineInit ==
  /\ \E n \in 0..Len(AllNodeIds) : nodes = SubSeq(AllNodeIds, 1, n)
  /\ edges \in SeqsUpTo(EdgeSet, MaxEdges)
  /\ pc = "idle"
  /\ status = "none"
  /\ node_results = EmptyMap
  /\ error = ""
  /\ started_at = FALSE
  /\ completed_at = FALSE
  /\ context_results = EmptyMap
  /\ local_node_results = EmptyMap
  /\ sorted_node_ids = <<>>
  /\ pos = 0
  /\ dispatched = <<>>
  /\ raised = <<>>

\* execution_repo.create: the record is created 'pending' with node_results {}
CreateExecution ==
  /\ pc = "idle"
  /\ pc' = "created"
  /\ status' = "pending"
  /\ node_results' = EmptyMap
  /\ UNCHANGED <<nodes, edges, error, started_at, completed_at, context_results,
                 local_node_results, sorted_node_ids, pos, dispatched, raised>>
  /\ UNCHANGED notEngineVars

\* StartExecution without the assignment of 'running'
StartExecution_stays_pending ==
  /\ pc = "created"
  /\ pc' = "planning"
  /\ started_at' = TRUE
  /\ context_results' = EmptyMap
  /\ UNCHANGED <<nodes, edges, status, node_results, error, completed_at,
                 local_node_results, sorted_node_ids, pos, dispatched, raised>>
  /\ UNCHANGED notEngineVars

\* execution.status = "running"; started_at; flush; context = WorkflowContext(..)
StartExecution ==
  /\ pc = "created"
  /\ pc' = "planning"
  /\ status' = "running"
  /\ started_at' = TRUE
  /\ context_results' = EmptyMap
  /\ UNCHANGED <<nodes, edges, node_results, error, completed_at,
                 local_node_results, sorted_node_ids, pos, dispatched, raised>>
  /\ UNCHANGED notEngineVars

\* the outer except clause of execute()
FailExecution(msg) ==
  /\ status' = "failed"
  /\ node_results' = context_results
  /\ error' = msg
  /\ completed_at' = TRUE
  /\ pc' = "returned"

\* _build_dag and _topological_sort
PlanExecution ==
  /\ pc = "planning"
  /\ LET sorted == topological_sort(build_dag(nodes, edges))
     IN IF sorted.ok
        THEN /\ sorted_node_ids' = sorted.order
             /\ local_node_results' = EmptyMap
             /\ pos' = 0
             /\ pc' = "loop"
             /\ UNCHANGED <<status, node_results, error, completed_at>>
        ELSE /\ FailExecution(CircularMessage)
             /\ UNCHANGED <<sorted_node_ids, local_node_results, pos>>
  /\ UNCHANGED <<nodes, edges, started_at, context_results, dispatched, raised>>
  /\ UNCHANGED notEngineVars

\* one pass of the for loop in which _execute_node returns
DispatchNode ==
  /\ pc = "loop"
  /\ Remaining # <<>>
  /\ LET node_id == Head(Remaining)
         result == ExecuteNodeValue(node_id)
     IN /\ dispatched' = Append(dispatched, node_id)
        /\ context_results' = Put(context_results, node_id, result)
        /\ local_node_results' =
             Put(local_node_results, node_id,
                 [status |-> "completed", result |-> result])
        /\ pos' = NextPos
  /\ UNCHANGED <<nodes, edges, pc, status, node_results, error, started_at,
                 completed_at, sorted_node_ids, raised>>
  /\ UNCHANGED notEngineVars

\* DispatchNodeRaises without the re-raise: the loop goes on to the next node
DispatchNodeRaises_goes_on ==
  /\ pc = "loop"
  /\ Remaining # <<>>
  /\ \E msg \in NodeErrors :
       LET node_id == Head(Remaining)
       IN /\ dispatched' = Append(dispatched, node_id)
          /\ local_node_results' =
               Put(local_node_results, node_id,
                   [status |-> "failed", error |-> msg])
          /\ raised' = <<node_id, msg>>
          /\ pos' = NextPos
  /\ UNCHANGED <<nodes, edges, pc, status, node_results, error, completed_at,
                 started_at, context_results, sorted_node_ids>>
  /\ UNCHANGED notEngineVars

\* one pass of the for loop in which _execute_node raises
DispatchNodeRaises ==
  /\ pc = "loop"
  /\ Remaining # <<>>
  /\ \E msg \in NodeErrors :
       LET node_id == Head(Remaining)
       IN /\ dispatched' = Append(dispatched, node_id)
          /\ local_node_results' =
               Put(local_node_results, node_id,
                   [status |-> "failed", error |-> msg])
          /\ raised' = <<node_id, msg>>
          /\ pos' = NextPos
          /\ FailExecution(msg)
  /\ UNCHANGED <<nodes, edges, started_at, context_results, sorted_node_ids>>
  /\ UNCHANGED notEngineVars

\* the loop ran to its end
CompleteExecution ==
  /\ pc = "loop"
  /\ Remaining = <<>>
  /\ status' = "completed"
  /\ node_results' = local_node_results
  /\ completed_at' = TRUE
  /\ pc' = "returned"
  /\ UNCHANGED <<nodes, edges, error, started_at, context_results,
                 local_node_results, sorted_node_ids, pos, dispatched, raised>>
  /\ UNCHANGED notEngineVars

EngineNext ==
  \/ CreateExecution
  \/ StartExecution
  \/ PlanExecution
  \/ DispatchNode
  \/ DispatchNodeRaises
  \/ CompleteExecution

(***************************************************************************)
(* Chat turn: ChatService.chat and ChatService.chat_stream_with_tools      *)
(***************************************************************************)

\* ChatService.MAX_TOOL_ITERATIONS
MAX_TOOL_ITERATIONS == 5

\* executor.MAX_TOOL_CALLS_PER_TURN, the default of ToolExecutor.max_calls
MAX_TOOL_CALLS_PER_TURN == 5

\* What can happen to a call of executor.execute below the call limit: the
\* registry does not know the tool; the tool returns a result (ok or not);
\* asyncio.wait_for times out; the tool raises TypeError or another Exception.
ToolOutcomes ==
  {"unknown_tool", "success", "tool_error", "timeout", "type_error", "exception"}

\* the id of the k-th tool call of the response to the it-th LLM call; the
\* provider gives every tool call an id of its own
ToolCallId(it, k) == <<it, k>>

Event(type, id) == [type |-> type, id |-> id]

NoId == <<>>

\* event_generator of the route: the events of the stream it passes on
SseEvent(e) ==
  IF e.type \in {"content", "tool_call", "tool_result", "done", "error"}
  THEN <<e>> ELSE <<>>

Message(role, kind, id) == [role |-> role, kind |-> kind, id |-> id]

\* the two messages stored for a tool call: the assistant's tool-call message
\* (with the tool_calls attachment) and the tool message with the result
ToolMessages_without_assistant(id) == <<Message("tool", "tool_result", id)>>

ToolMessages(id) ==
  <<Message("assistant", "tool_call", id), Message("tool", "tool_result", id)>>

\* while iteration < self.MAX_TOOL_ITERATIONS
LoopCondition_off_by_one == iteration <= MAX_TOOL_ITERATIONS

LoopCondition == iteration < MAX_TOOL_ITERATIONS

ChatInit ==
  /\ mode = "none"
  /\ cpc = "idle"
  /\ iteration = 0
  /\ llm_calls = 0
  /\ tool_calls = <<>>
  /\ tc_index = 0
  /\ tool_call_open = FALSE
  /\ call_count = 0
  /\ executor_calls = 0
  /\ tool_invocations = 0
  /\ db_messages = <<>>
  /\ events = <<>>
  /\ turn_result = "none"
  /\ last_outcome = "none"
  /\ single_ok = TRUE

\* The start of a turn: the user message is stored, the executor's counter is
\* reset, iteration = 0; the route's event_generator sends 'start' first.
BeginTurn ==
  /\ cpc = "idle"
  /\ \E m \in {"chat", "stream"} :
       /\ mode' = m
       /\ events' = IF m = "stream" THEN <<Event("start", NoId)>> ELSE <<>>
  /\ db_messages' = <<Message("user", "user", NoId)>>
  /\ call_count' = 0
  /\ iteration' = 0
  /\ cpc' = "llm"
  /\ UNCHANGED <<llm_calls, tool_calls, tc_index, tool_call_open, executor_calls,
                 tool_invocations, turn_result, last_outcome, single_ok>>
  /\ UNCHANGED notChatVars

\* llm.chat_with_tools raises: chat() lets the exception through;
\* event_generator catches it and sends 'error'
LlmRaises ==
  /\ cpc = "llm"
  /\ LoopCondition
  /\ iteration' = iteration + 1
  /\ llm_calls' = llm_calls + 1
  /\ events' = IF mode = "stream" THEN Append(events, Event("error", NoId))
               ELSE events
  /\ turn_result' = "raised"
  /\ single_ok' = FALSE
  /\ cpc' = "ended"
  /\ UNCHANGED <<mode, tool_calls, tc_index, tool_call_open, call_count,
                 executor_calls, tool_invocations, db_messages, last_outcome>>
  /\ UNCHANGED notChatVars

\* llm.chat_with_tools returns a response without tool calls:
\* chat() breaks and stores the final assistant message; the stream sends
\* 'content' and stores the message when the content is not empty, then 'done'
LlmAnswers ==
  /\ cpc = "llm"
  /\ LoopCondition
  /\ iteration' = iteration + 1
  /\ llm_calls' = llm_calls + 1
  /\ \E has_content \in BOOLEAN :
       IF mode = "chat"
       THEN /\ db_messages' =
                 Append(db_messages, Message("assistant", "final", NoId))
            /\ UNCHANGED events
       ELSE /\ db_messages' =
                 IF has_content
                 THEN Append(db_messages, Message("assistant", "final", NoId))
                 ELSE db_messages
            /\ events' =
                 events
                   \o (IF has_content THEN SseEvent(Event("content", NoId)) ELSE <<>>)
                   \o SseEvent(Event("done", NoId))
  /\ turn_result' = "returned"
  /\ single_ok' = FALSE
  /\ cpc' = "ended"
  /\ UNCHANGED <<mode, tool_calls, tc_index, tool_call_open, call_count,
                 executor_calls, tool_invocations, last_outcome>>
  /\ UNCHANGED notChatVars

\* llm.chat_with_tools returns a response with k >= 1 tool calls
LlmRequestsTools ==
  /\ cpc = "llm"
  /\ LoopCondition
  /\ iteration' = iteration + 1
  /\ llm_calls' = llm_calls + 1
  /\ \E k \in 1..MaxToolCalls :
       /\ tool_calls' = [j \in 1..k |-> ToolCallId(iteration + 1, j)]
       /\ single_ok' = (single_ok /\ k = 1)
  /\ tc_index' = 0
  /\ cpc' = "tools"
  /\ UNCHANGED <<mode, tool_call_open, call_count, executor_calls,
                 tool_invocations, db_messages, events, turn_result,
                 last_outcome>>
  /\ UNCHANGED notChatVars

\* ToolExecutor.execute, for a call whose outcome below the limit would be o:
\* what it returns and whether it counted the call and invoked the tool
ExecutorExecute_raises_on_exception(o) ==
  IF call_count >= MAX_TOOL_CALLS_PER_TURN
  THEN [outcome |-> "over_limit", invoked |-> FALSE, success |-> FALSE,
        raises |-> FALSE]
  ELSE IF o = "unknown_tool"
  THEN [outcome |-> o, invoked |-> FALSE, success |-> FALSE, raises |-> FALSE]
  ELSE [outcome |-> o, invoked |-> TRUE, success |-> (o = "success"),
        raises |-> (o = "exception")]

ExecutorExecute(o) ==
  IF call_count >= MAX_TOOL_CALLS_PER_TURN
  THEN [outcome |-> "over_limit", invoked |-> FALSE, success |-> FALSE,
        raises |-> FALSE]
  ELSE IF o = "unknown_tool"
  THEN [outcome |-> o, invoked |-> FALSE, success |-> FALSE, raises |-> FALSE]
  ELSE [outcome |-> o, invoked |-> TRUE, success |-> (o = "success"),
        raises |-> FALSE]

\* the effect of one call of executor.execute on the executor and the monitors
ApplyExecute(r) ==
  /\ executor_calls' = executor_calls + 1
  /\ call_count' = IF r.invoked THEN call_count + 1 ELSE call_count
  /\ tool_invocations' = IF r.invoked THEN tool_invocations + 1
                         ELSE tool_invocations
  /\ last_outcome' = r.outcome
  /\ single_ok' = (single_ok /\ r.success)

\* stream: yield ChatEvent(type="tool_call") for the next tool call
EmitToolCall ==
  /\ cpc = "tools"
  /\ mode = "stream"
  /\ ~tool_call_open
  /\ tc_index < Len(tool_calls)
  /\ events' = events \o SseEvent(Event("tool_call", tool_calls[tc_index + 1]))
  /\ tool_call_open' = TRUE
  /\ UNCHANGED <<mode, cpc, iteration, llm_calls, tool_calls, tc_index,
                 call_count, executor_calls, tool_invocations, db_messages,
                 turn_result, last_outcome, single_ok>>
  /\ UNCHANGED notChatVars

\* stream: executor.execute, yield ChatEvent(type="tool_result"), append and
\* store the two messages; after the last tool call 'continue'
ExecuteToolStream ==
  /\ cpc = "tools"
  /\ mode = "stream"
  /\ tool_call_open
  /\ \E o \in ToolOutcomes :
       LET r == ExecutorExecute(o)
           id == tool_calls[tc_index + 1]
       IN /\ ApplyExecute(r)
          /\ IF r.raises
             THEN /\ events' = Append(events, Event("error", NoId))
                  /\ turn_result' = "raised"
                  /\ cpc' = "ended"
                  /\ UNCHANGED <<db_messages, tc_index>>
             ELSE /\ events' = events \o SseEvent(Event("tool_result", id))
                  /\ db_messages' = db_messages \o ToolMessages(id)
                  /\ tc_index' = tc_index + 1
                  /\ cpc' = IF tc_index + 1 = Len(tool_calls) THEN "llm"
                            ELSE "tools"
                  /\ UNCHANGED turn_result
  /\ tool_call_open' = FALSE
  /\ UNCHANGED <<mode, iteration, llm_calls, tool_calls>>
  /\ UNCHANGED notChatVars

\* chat: one pass of the loop of _execute_tool_calls
ExecuteToolChat ==
  /\ cpc = "tools"
  /\ mode = "chat"
  /\ tc_index < Len(tool_calls)
  /\ \E o \in ToolOutcomes :
       LET r == ExecutorExecute(o)
       IN /\ ApplyExecute(r)
          /\ IF r.raises
             THEN /\ turn_result' = "raised"
                  /\ cpc' = "ended"
                  /\ UNCHANGED tc_index
             ELSE /\ tc_index' = tc_index + 1
                  /\ UNCHANGED <<turn_result, cpc>>
  /\ UNCHANGED <<mode, iteration, llm_calls, tool_calls, tool_call_open,
                 db_messages, events>>
  /\ UNCHANGED notChatVars

RECURSIVE AllToolMessages(_, _)
AllToolMessages(ids, i) ==
  IF i > Len(ids) THEN <<>>
  ELSE ToolMessages(ids[i]) \o AllToolMessages(ids, i + 1)

\* chat: the loop over tool_results that appends and stores the messages
StoreToolMessages ==
  /\ cpc = "tools"
  /\ mode = "chat"
  /\ tc_index = Len(tool_calls)
  /\ db_messages' = db_messages \o AllToolMessages(tool_calls, 1)
  /\ cpc' = "llm"
  /\ UNCHANGED <<mode, iteration, llm_calls, tool_calls, tc_index,
                 tool_call_open, call_count, executor_calls, tool_invocations,
                 events, turn_result, last_outcome, single_ok>>
  /\ UNCHANGED notChatVars

\* the while condition is false: chat() stores the final assistant message
\* and returns; the generator of the stream ends
LoopExhausted ==
  /\ cpc = "llm"
  /\ ~LoopCondition
  /\ db_messages' =
       IF mode = "chat"
       THEN Append(db_messages, Message("assistant", "final", NoId))
       ELSE db_messages
  /\ turn_result' = "returned"
  /\ cpc' = "ended"
  /\ UNCHANGED <<mode, iteration, llm_calls, tool_calls, tc_index,
                 tool_call_open, call_count, executor_calls, tool_invocations,
                 events, last_outcome, single_ok>>
  /\ UNCHANGED notChatVars

ChatNext ==
  \/ BeginTurn
  \/ LlmRaises
  \/ LlmAnswers
  \/ LlmRequestsTools
  \/ EmitToolCall
  \/ ExecuteToolStream
  \/ ExecuteToolChat
  \/ StoreToolMessages
  \/ LoopExhausted

(***************************************************************************)
(* Webhook receiver: api/routes/webhooks.py                                *)
(***************************************************************************)
\* the secrets in use ("" stands for a trigger without secret)
Secrets == {"k1", "k2"}

\* raw request bodies: one that parses as JSON and one that does not
Bodies == {"{\"event\":\"ping\"}", "not json"}

Paths == {"hooks/a", "hooks/b", "hooks/c", "hooks/none"}

\* hex HMAC-SHA256(secret, payload): a value that names its key and message
\* (two digests are equal only for the same key and the same message)
HmacSha256Hex(secret, payload) == <<secret, payload>>

\* a header value: prefix followed by digest; ascii says whether all its
\* characters are ASCII (the framework decodes header bytes as latin-1)
HeaderValue(prefix, digest, ascii) ==
  [prefix |-> prefix, digest |-> digest, ascii |-> ascii]

\* request.headers.get("X-Webhook-Signature", "") for a request without it
NoSignature == HeaderValue("", <<>>, TRUE)

\* the values of X-Webhook-Signature the requests carry
Signatures ==
  {NoSignature}
    \cup {HeaderValue(p, HmacSha256Hex(k, b), TRUE) :
            p \in {"sha256=", ""}, k \in Secrets, b \in Bodies}
    \cup {HeaderValue("sha256=", <<"deadbeef">>, TRUE),
          HeaderValue("sha256=", <<"dead", "beef">>, FALSE)}

Requests == [path : Paths, body : Bodies, signature : Signatures]

NoRequest == [path |-> "", body |-> "", signature |-> NoSignature]

\* hmac.compare_digest(a, b) on two str: TypeError unless both are ASCII
compare_digest(a, b) ==
  IF ~a.ascii \/ ~b.ascii THEN "TypeError"
  ELSE IF a.prefix = b.prefix /\ a.digest = b.digest THEN "true" ELSE "false"

verify_hmac_signature(payload, signature, secret) ==
  compare_digest(HeaderValue("sha256=", HmacSha256Hex(secret, payload), TRUE),
                 signature)

\* request.json() with the fallback body = {}
ParseBody(body) == IF body = "not json" THEN "{}" ELSE body

\* WebhookTriggerRepository.get_by_path: the active triggers with the path
get_by_path(path) ==
  {t \in DOMAIN webhook_triggers :
     /\ webhook_triggers[t].webhook_path = path
     /\ webhook_triggers[t].is_active}

\* The table: a trigger with a secret, one without, an inactive one.
\* last_triggered_at = 0 stands for NULL.
WebhookInit ==
  /\ webhook_triggers =
       [t \in {"t1", "t2", "t3"} |->
          [webhook_path |-> CASE t = "t1" -> "hooks/a"
                              [] t = "t2" -> "hooks/b"
                              [] OTHER -> "hooks/c",
           secret |-> CASE t = "t1" -> "k1" [] t = "t2" -> "" [] OTHER -> "k2",
           is_active |-> (t # "t3"),
           workflow_id |-> CASE t = "t1" -> "w1" [] t = "t2" -> "w2" [] OTHER -> "w3",
           last_triggered_at |-> 0]]
  /\ job_queue = <<>>
  /\ now = 0
  /\ request = NoRequest
  /\ response = 0

Respond(req, code) ==
  /\ request' = req
  /\ response' = code
  /\ now' = now + 1

\* 404: no active trigger has the path
WebhookNotFound ==
  /\ now < MaxRequests
  /\ \E req \in Requests :
       /\ get_by_path(req.path) = {}
       /\ Respond(req, 404)
  /\ UNCHANGED <<webhook_triggers, job_queue>>
  /\ UNCHANGED notWebhookVars

\* the trigger has a secret and verify_hmac_signature returns False: 401
WebhookUnauthorized ==
  /\ now < MaxRequests
  /\ \E req \in Requests : \E t \in get_by_path(req.path) :
       /\ webhook_triggers[t].secret # ""
       /\ verify_hmac_signature(req.body, req.signature, webhook_triggers[t].secret)
            = "false"
       /\ Respond(req, 401)
  /\ UNCHANGED <<webhook_triggers, job_queue>>
  /\ UNCHANGED notWebhookVars

\* the trigger has a secret and hmac.compare_digest raises: the exception is
\* not handled, the framework answers 500
WebhookServerError ==
  /\ now < MaxRequests
  /\ \E req \in Requests : \E t \in get_by_path(req.path) :
       /\ webhook_triggers[t].secret # ""
       /\ verify_hmac_signature(req.body, req.signature, webhook_triggers[t].secret)
            = "TypeError"
       /\ Respond(req, 500)
  /\ UNCHANGED <<webhook_triggers, job_queue>>
  /\ UNCHANGED notWebhookVars

\* no secret, or the signature verifies: last_triggered_at is set, the job is
\* enqueued, the request is accepted
WebhookAccepted ==
  /\ now < MaxRequests
  /\ \E req \in Requests : \E t \in get_by_path(req.path) :
       /\ \/ webhook_triggers[t].secret = ""
          \/ verify_hmac_signature(req.body, req.signature,
                                   webhook_triggers[t].secret) = "true"
       /\ webhook_triggers' =
            [webhook_triggers EXCEPT ![t].last_triggered_at = now + 1]
       /\ job_queue' =
            Append(job_queue,
                   [workflow_id |-> webhook_triggers[t].workflow_id,
                    trigger_type |-> "webhook",
                    webhook_path |-> req.path,
                    body |-> ParseBody(req.body)])
       /\ Respond(req, 200)
  /\ UNCHANGED notWebhookVars

WebhookNext ==
  \/ WebhookNotFound
  \/ WebhookUnauthorized
  \/ WebhookServerError
  \/ WebhookAccepted

(***************************************************************************)
(* Workflow routes (api/routes/workflows.py), API-key trigger              *)
(* (api/deps.py, api/routes/api_trigger.py) and rate limiter               *)
(* (services/rate_limiter.py)                                              *)
(***************************************************************************)

\* the users that own workflows and API keys
Users == {"u1", "u2"}

\* the ids a request can name: w1, w2 and w3 are rows at the start, w9
\* never is
WorkflowIds == {"w1", "w2", "w3", "w9"}

\* the values of the X-API-Key header examined
ApiKeyHeaders == {"sk_a", "sk_b", "sk_c", "sk_d", "sk_none"}

\* The API-key requests examined.  A key that is rejected before the
\* workflow is looked up is sent with one workflow id only.
ApiRequests ==
  [x_api_key : {"sk_a"}, workflow_id : WorkflowIds]
    \cup [x_api_key : {"sk_b"}, workflow_id : {"w1", "w2"}]
    \cup [x_api_key : {"sk_c", "sk_d", "sk_none"}, workflow_id : {"w1"}]

\* the connections that can hold an API-key request between its clock read
\* and the execution of its pipeline
Connections == {1, 2}

\* seconds that pass before a request arrives
Delays == {0, 1, 3600}

\* check_rate_limit(key, limit, window_seconds=3600), called without a window
WINDOW_SECONDS == 3600

\* hashlib.sha256(x).hexdigest(): distinct keys have distinct hashes
Sha256Hex(x) == <<"sha256", x>>

\* The user_api_keys table.  kA may execute (limit 2), kB holds "*" (limit
\* 1), kC lacks the scope, kD expired before the clock started.
user_api_keys ==
  [id \in {"kA", "kB", "kC", "kD"} |->
     [key_hash |-> Sha256Hex(CASE id = "kA" -> "sk_a" [] id = "kB" -> "sk_b"
                               [] id = "kC" -> "sk_c" [] OTHER -> "sk_d"),
      user_id |-> IF id = "kB" THEN "u2" ELSE "u1",
      scopes |-> CASE id = "kA" -> {"workflows:execute"}
                   [] id = "kC" -> {"workflows:read"}
                   [] OTHER -> {"*"},
      rate_limit |-> IF id = "kB" THEN 1 ELSE 2,
      has_expiry |-> (id = "kD"),
      expires_at |-> -1]]

\* UserApiKeyRepository.get_by_hash: the rows with the hash
get_by_hash(key_hash) ==
  {id \in DOMAIN user_api_keys : user_api_keys[id].key_hash = key_hash}

\* a key that never expires
KeyExpired_never(id, t) == FALSE

\* verify_api_key: api_key.expires_at and api_key.expires_at < now
KeyExpired(id, t) ==
  user_api_keys[id].has_expiry /\ user_api_keys[id].expires_at < t

\* a lookup by id alone, like WorkflowRepository.get
get_by_user_any_owner(tbl, workflow_id, user_id) ==
  {w \in DOMAIN tbl : w = workflow_id}

\* WorkflowRepository.get_by_user: the rows with the id and the owner
get_by_user(tbl, workflow_id, user_id) ==
  {w \in DOMAIN tbl : w = workflow_id /\ tbl[w].user_id = user_id}

get_rate_limit_key(api_key_id) == <<"rate_limit", api_key_id>>

\* str(now), the member zadd stores
Str(n) == <<"str", n>>

\* Redis sorted-set commands on a set of [member, score]
zremrangebyscore(z, lo, hi) == {e \in z : ~(lo <= e.score /\ e.score <= hi)}

zcard(z) == Cardinality(z)

zadd(z, member, score) ==
  {e \in z : e.member # member} \cup {[member |-> member, score |-> score]}

\* RateLimiter.check_rate_limit: the four commands of the pipeline run as one
\* transaction; the result is the tuple returned and the sorted set left
\* behind.  (expire only drops a set whose entries the next call would all
\* remove.)
check_rate_limit(z, t, limit, window_seconds) ==
  LET window_start == t - window_seconds
      z1 == zremrangebyscore(z, 0, window_start)
      current_count == zcard(z1)
  IN  [zset |-> zadd(z1, Str(t), t),
       allowed |-> ~(current_count >= limit),
       remaining |-> IF current_count >= limit THEN 0
                     ELSE limit - current_count - 1]

\* RateLimiter.get_remaining
get_remaining(z, t, limit, window_seconds) ==
  LET z1 == zremrangebyscore(z, 0, t - window_seconds)
  IN  [zset |-> z1,
       remaining |-> IF limit - zcard(z1) > 0 THEN limit - zcard(z1) ELSE 0]

\* an HTTPException: the status code and {"detail": ...}
HttpError(code, detail) ==
  [code |-> code, body |-> [detail |-> detail], enqueue |-> FALSE]

\* api_execute_workflow after verify_api_key has returned the key: the
\* response, whether a job is enqueued and the sorted set left behind
api_execute_workflow(k, workflow_id, tbl, z, t) ==
  LET key == user_api_keys[k]
      rem == get_remaining(z, t, key.rate_limit, WINDOW_SECONDS)
  IN  IF "workflows:execute" \notin key.scopes /\ "*" \notin key.scopes
        THEN [resp |-> HttpError(403, "Insufficient scope"), zset |-> z]
      ELSE IF get_by_user(tbl, workflow_id, key.user_id) = {}
        THEN [resp |-> HttpError(404, "Workflow not found"), zset |-> z]
      ELSE IF ~tbl[workflow_id].is_active
        THEN [resp |-> HttpError(400, "Workflow is not active"), zset |-> z]
      ELSE [resp |-> [code |-> 200,
                      body |-> [status |-> "accepted",
                                workflow_id |-> workflow_id,
                                rate_limit_remaining |-> rem.remaining],
                      enqueue |-> TRUE],
            zset |-> rem.zset]

\* the routes of api/routes/workflows.py for one workflow id: the response
\* and the tables left behind
WorkflowNotFound(workflow_id) ==
  [code |-> 404, body |-> [detail |-> <<"Workflow", workflow_id, "not found">>]]

Route(op, user_id, workflow_id, tbl, execs) ==
  IF get_by_user(tbl, workflow_id, user_id) = {}
    THEN [resp |-> WorkflowNotFound(workflow_id),
          workflows |-> tbl, executions |-> execs]
  ELSE CASE op = "get" ->
         [resp |-> [code |-> 200,
                    body |-> [id |-> workflow_id, row |-> tbl[workflow_id]]],
          workflows |-> tbl, executions |-> execs]
    [] op = "update" ->
         \* PATCH with {"name": "renamed", "is_active": false}
         LET row == [tbl[workflow_id] EXCEPT !.name = "renamed",
                                             !.is_active = FALSE]
         IN  [resp |-> [code |-> 200,
                        body |-> [id |-> workflow_id, row |-> row]],
              workflows |-> [tbl EXCEPT ![workflow_id] = row],
              executions |-> execs]
    [] op = "delete" ->
         [resp |-> [code |-> 204, body |-> [id |-> workflow_id]],
          workflows |-> [w \in (DOMAIN tbl) \ {workflow_id} |-> tbl[w]],
          executions |-> execs]
    [] op = "execute" ->
         [resp |-> [code |-> 202,
                    body |-> [workflow_id |-> workflow_id,
                              execution |-> execs[workflow_id] + 1]],
          workflows |-> tbl,
          executions |-> [execs EXCEPT ![workflow_id] = @ + 1]]
    [] OTHER ->
         [resp |-> [code |-> 200,
                    body |-> [workflow_id |-> workflow_id,
                              executions |-> execs[workflow_id]]],
          workflows |-> tbl, executions |-> execs]

RouteOps == {"get", "update", "delete", "execute", "list_executions"}

\* the table without the row of an id
WithoutRow(tbl, workflow_id) ==
  [w \in (DOMAIN tbl) \ {workflow_id} |-> tbl[w]]

NoCall == [x_api_key |-> "", key_id |-> "", workflow_id |-> "", now |-> 0,
           busy |-> FALSE]

NoResponse == [code |-> 0, body |-> [detail |-> ""]]

\* what is kept of the request answered last
Answered(op, who, wid, resp, absent, check, failed, enq, at) ==
  [op |-> op, caller |-> who, workflow_id |-> wid,
   seen |-> [workflows |-> workflows, executions |-> executions],
   response |-> resp, if_absent |-> absent,
   check |-> check, kv_failed |-> failed, enqueued |-> enq,
   verified_at |-> at]

NoCheck == [allowed |-> FALSE, remaining |-> -1, returned |-> FALSE]

Returned(r) ==
  [allowed |-> r.allowed, remaining |-> r.remaining, returned |-> TRUE]

\* The tables at the start: u1 owns w1 (active) and w3 (inactive), u2 owns
\* w2 (active); n is the number of requests the behaviour receives.
ApiStart(n) ==
  /\ workflows = [w \in {"w1", "w2", "w3"} |->
                    [user_id |-> IF w = "w2" THEN "u2" ELSE "u1",
                     is_active |-> (w # "w3"),
                     name |-> "new"]]
  /\ budget = n
  /\ executions = [w \in WorkflowIds |-> 0]
  /\ zsets = [k \in DOMAIN user_api_keys |-> {}]
  /\ clock = 0
  /\ api_calls = [c \in Connections |-> NoCall]
  /\ api_jobs = <<>>
  /\ handled = 0
  /\ last = Answered("none", "", "", NoResponse, NoResponse, NoCheck, FALSE,
                     FALSE, 0)
  /\ allowed_calls = {}

ApiInit == ApiStart(MaxApiRequests)

RoutesInit == ApiStart(MaxRouteRequests)

\* the connection a new request is served on
FreeConnection(c) ==
  /\ ~api_calls[c].busy
  /\ \A d \in Connections : d < c => api_calls[d].busy

\* a route of api/routes/workflows.py, called by an authenticated user
WorkflowRoute ==
  /\ handled < budget
  /\ \E op \in RouteOps, u \in Users, w \in WorkflowIds :
       LET r == Route(op, u, w, workflows, executions)
           a == Route(op, u, w, WithoutRow(workflows, w), executions)
       IN  /\ workflows' = r.workflows
           /\ executions' = r.executions
           /\ last' = Answered(op, u, w, r.resp, a.resp, NoCheck, FALSE,
                               FALSE, clock)
  /\ handled' = handled + 1
  /\ UNCHANGED <<zsets, clock, api_calls, api_jobs, budget, allowed_calls>>
  /\ UNCHANGED notApiVars

\* verify_api_key: no row has the key's hash, or the key has expired: 401
ApiUnauthenticated ==
  /\ handled < budget
  /\ \E req \in ApiRequests, d \in Delays :
       LET x == req.x_api_key
           w == req.workflow_id
           ks == get_by_hash(Sha256Hex(x))
           resp == [code |-> 401,
                    body |-> [detail |-> IF ks = {} THEN "Invalid API key"
                                         ELSE "API key expired"]]
       IN  /\ \A k \in ks : KeyExpired(k, clock + d)
           /\ clock' = clock + d
           /\ last' = Answered("api_execute", x, w, resp, resp, NoCheck,
                               FALSE, FALSE, clock + d)
  /\ handled' = handled + 1
  /\ UNCHANGED <<workflows, executions, zsets, api_calls, api_jobs, budget,
                 allowed_calls>>
  /\ UNCHANGED notApiVars

\* verify_api_key finds the key, check_rate_limit reads the clock and sends
\* the pipeline
ApiVerified(c) ==
  /\ handled < budget
  /\ FreeConnection(c)
  /\ \E req \in ApiRequests, d \in Delays :
       \E k \in get_by_hash(Sha256Hex(req.x_api_key)) :
         /\ ~KeyExpired(k, clock + d)
         /\ clock' = clock + d
         /\ api_calls' = [api_calls EXCEPT ![c] =
                            [x_api_key |-> req.x_api_key, key_id |-> k,
                             workflow_id |-> req.workflow_id,
                             now |-> clock + d, busy |-> TRUE]]
  /\ handled' = handled + 1
  /\ UNCHANGED <<workflows, executions, zsets, api_jobs, budget, last,
                 allowed_calls>>
  /\ UNCHANGED notApiVars

\* pipe.execute() raises (the store is unreachable): nothing handles the
\* exception, the framework answers 500
ApiRateCheckRaises(c) ==
  /\ api_calls[c].busy
  /\ LET call == api_calls[c]
         resp == [code |-> 500, body |-> [detail |-> "Internal Server Error"]]
     IN  last' = Answered("api_execute", call.x_api_key, call.workflow_id,
                          resp, resp, NoCheck, TRUE, FALSE, call.now)
  /\ api_calls' = [api_calls EXCEPT ![c] = NoCall]
  /\ UNCHANGED <<workflows, executions, zsets, clock, api_jobs, budget,
                 handled, allowed_calls>>
  /\ UNCHANGED notApiVars

\* the pipeline runs; verify_api_key answers 429 or returns the key, and
\* api_execute_workflow runs to its response
ApiRateChecked(c) ==
  /\ api_calls[c].busy
  /\ LET call == api_calls[c]
         k == call.key_id
         r == check_rate_limit(zsets[k], call.now,
                               user_api_keys[k].rate_limit, WINDOW_SECONDS)
         h == api_execute_workflow(k, call.workflow_id, workflows, r.zset,
                                   clock)
         a == api_execute_workflow(k, call.workflow_id,
                                   WithoutRow(workflows, call.workflow_id),
                                   r.zset, clock)
         tooMany == [code |-> 429, body |-> [detail |-> "Rate limit exceeded"]]
     IN  IF ~r.allowed
           THEN /\ zsets' = [zsets EXCEPT ![k] = r.zset]
                /\ last' = Answered("api_execute", call.x_api_key,
                                    call.workflow_id, tooMany, tooMany,
                                    Returned(r), FALSE, FALSE, call.now)
                /\ UNCHANGED <<api_jobs, allowed_calls>>
           ELSE /\ zsets' = [zsets EXCEPT ![k] = h.zset]
                /\ allowed_calls' = allowed_calls \cup
                     {[key |-> k, at |-> clock,
                       n |-> Cardinality(allowed_calls) + 1]}
                /\ api_jobs' =
                     IF h.resp.enqueue
                       THEN Append(api_jobs,
                                   [workflow_id |-> call.workflow_id,
                                    trigger_type |-> "api",
                                    api_key_id |-> k])
                       ELSE api_jobs
                /\ last' = Answered("api_execute", call.x_api_key,
                                    call.workflow_id,
                                    [code |-> h.resp.code, body |-> h.resp.body],
                                    [code |-> a.resp.code, body |-> a.resp.body],
                                    Returned(r), FALSE, h.resp.enqueue,
                                    call.now)
  /\ api_calls' = [api_calls EXCEPT ![c] = NoCall]
  /\ UNCHANGED <<workflows, executions, clock, budget, handled>>
  /\ UNCHANGED notApiVars

\* the pipeline ran and every check passed, get_remaining raises: 500, and
\* execute_workflow_task.delay is never reached
ApiRemainingRaises(c) ==
  /\ api_calls[c].busy
  /\ LET call == api_calls[c]
         k == call.key_id
         r == check_rate_limit(zsets[k], call.now,
                               user_api_keys[k].rate_limit, WINDOW_SECONDS)
         h == api_execute_workflow(k, call.workflow_id, workflows, r.zset,
                                   clock)
         resp == [code |-> 500, body |-> [detail |-> "Internal Server Error"]]
     IN  /\ r.allowed
         /\ h.resp.enqueue
         /\ zsets' = [zsets EXCEPT ![k] = r.zset]
         /\ allowed_calls' = allowed_calls \cup
              {[key |-> k, at |-> clock, n |-> Cardinality(allowed_calls) + 1]}
         /\ last' = Answered("api_execute", call.x_api_key, call.workflow_id,
                             resp, resp, Returned(r), FALSE, FALSE, call.now)
  /\ api_calls' = [api_calls EXCEPT ![c] = NoCall]
  /\ UNCHANGED <<workflows, executions, clock, api_jobs, budget, handled>>
  /\ UNCHANGED notApiVars

\* GET /rate-limit: verify_api_key (with its check_rate_limit), then
\* get_rate_limit_status, as one step
RateLimitStatus ==
  /\ handled < budget
  /\ \E x \in ApiKeyHeaders, d \in Delays :
       LET t == clock + d
           ks == {k \in get_by_hash(Sha256Hex(x)) : ~KeyExpired(k, t)}
       IN  /\ clock' = t
           /\ IF ks = {}
                THEN LET resp == [code |-> 401,
                                  body |-> [detail |-> "Invalid or expired"]]
                     IN  /\ last' = Answered("rate_limit_status", x, "", resp,
                                             resp, NoCheck, FALSE, FALSE, t)
                         /\ UNCHANGED <<zsets, allowed_calls>>
                ELSE \E k \in ks :
                  LET limit == user_api_keys[k].rate_limit
                      r == check_rate_limit(zsets[k], t, limit, WINDOW_SECONDS)
                      rem == get_remaining(r.zset, t, limit, WINDOW_SECONDS)
                      resp == IF r.allowed
                                THEN [code |-> 200,
                                      body |-> [limit |-> limit,
                                                remaining |-> rem.remaining,
                                                reset_window_seconds |-> 3600]]
                              ELSE [code |-> 429,
                                    body |-> [detail |-> "Rate limit exceeded"]]
                  IN  /\ zsets' = [zsets EXCEPT ![k] =
                                     IF r.allowed THEN rem.zset ELSE r.zset]
                      /\ allowed_calls' =
                           IF r.allowed
                             THEN allowed_calls \cup
                                    {[key |-> k, at |-> t,
                                      n |-> Cardinality(allowed_calls) + 1]}
                             ELSE allowed_calls
                      /\ last' = Answered("rate_limit_status", x, "", resp,
                                          resp, Returned(r), FALSE, FALSE, t)
  /\ handled' = handled + 1
  /\ UNCHANGED <<workflows, executions, api_calls, api_jobs, budget>>
  /\ UNCHANGED notApiVars

ApiNext ==
  \/ ApiUnauthenticated
  \/ \E c \in Connections : ApiVerified(c)
  \/ \E c \in Connections : ApiRateCheckRaises(c)
  \/ \E c \in Connections : ApiRateChecked(c)
  \/ \E c \in Connections : ApiRemainingRaises(c)

RoutesNext ==
  \/ WorkflowRoute
  \/ ApiUnauthenticated
  \/ \E c \in Connections : ApiVerified(c)
  \/ \E c \in Connections : ApiRateCheckRaises(c)
  \/ \E c \in Connections : ApiRateChecked(c)
  \/ \E c \in Connections : ApiRemainingRaises(c)

\* the API-key trigger with its rate-limit status route
StatusNext ==
  \/ RateLimitStatus
  \/ ApiUnauthenticated
  \/ \E c \in Connections : ApiVerified(c)
  \/ \E c \in Connections : ApiRateCheckRaises(c)
  \/ \E c \in Connections : ApiRateChecked(c)
  \/ \E c \in Connections : ApiRemainingRaises(c)

(***************************************************************************)
(* A2A tasks: a2a/server.py, a2a/task_store.py, api/routes/a2a.py          *)
(*                                                                         *)
(* The store is a pair of dicts guarded by an asyncio.Lock that is only    *)
(* held across code without an await, so acquiring it never suspends a     *)
(* coroutine: the store operations of execute_task before the call of      *)
(* ChatService.chat, those after it, and those of cancel_task each run     *)
(* without another coroutine in between.  An execute_task call is          *)
(* suspended only while ChatService.chat runs.                             *)
(***************************************************************************)

\* the task ids a request can name (TaskRequest.id or the path parameter)
TaskIds == {"t1", "t2"}

\* A2ATaskContext(task_id, agent_id, status): result and error are None
\* ("" here) until update_context_status sets them
A2ATaskContext(task_id, st) ==
  [task_id |-> task_id, status |-> st, result |-> "", error |-> "",
   conversation_id |-> ""]

\* the dicts save_task stores
TaskRecord(task_id, st, result, err) ==
  [id |-> task_id, status |-> st, result |-> result, error |-> err]

\* the response of the run r of ChatService.chat, and its exception
ChatResponse(r) == <<"response", r>>

ChatError(r) == <<"error", r>>

\* an update that sets the status only together with a result
update_context_status_with_result(cs, task_id, st, result, err) ==
  IF task_id \in DOMAIN cs /\ result # ""
    THEN [cs EXCEPT ![task_id] = [@ EXCEPT !.status = st, !.result = result]]
    ELSE cs

\* TaskStore.update_context_status: a no-op when no context has the id
update_context_status(cs, task_id, st, result, err) ==
  IF task_id \in DOMAIN cs
    THEN [cs EXCEPT ![task_id] =
            [@ EXCEPT !.status = st,
                      !.result = IF result # "" THEN result ELSE @,
                      !.error = IF err # "" THEN err ELSE @]]
    ELSE cs

\* TaskStore.set_conversation_id
set_conversation_id(cs, task_id, conversation_id) ==
  IF task_id \in DOMAIN cs
    THEN [cs EXCEPT ![task_id].conversation_id = conversation_id]
    ELSE cs

\* a cancel_task that takes no status for final
IsFinal_never(st) == FALSE

\* cancel_task: context.status in (COMPLETED, FAILED)
IsFinal(st) == st \in {"completed", "failed"}

NotFound404 == TaskRecord("", "not found", "", "")

Reply(op, task_id, returned) ==
  [op |-> op, task_id |-> task_id, returned |-> returned,
   n |-> task_requests + 1]

A2AInit ==
  /\ contexts = EmptyMap
  /\ tasks = EmptyMap
  /\ runs = {}
  /\ task_requests = 0
  /\ task_reply = [op |-> "none", task_id |-> "", returned |-> NotFound404,
                   n |-> 0]

\* POST /agents/{agent_id}/tasks: execute_task stores the context and the
\* task as running and calls ChatService.chat
SubmitTask(t) ==
  /\ task_requests < MaxTaskRequests
  /\ contexts' = Put(contexts, t, A2ATaskContext(t, "running"))
  /\ tasks' = Put(tasks, t, TaskRecord(t, "running", "", ""))
  /\ runs' = runs \cup {[run |-> task_requests + 1, task_id |-> t]}
  /\ task_requests' = task_requests + 1
  /\ UNCHANGED task_reply
  /\ UNCHANGED notA2AVars

\* ChatService.chat returns: execute_task stores the result as completed and
\* answers the submission
ChatReturns(n) ==
  \E r \in runs :
  /\ r.run = n
  /\ contexts' = update_context_status(
                   set_conversation_id(contexts, r.task_id, <<"conv", r.run>>),
                   r.task_id, "completed", ChatResponse(r.run), "")
  /\ tasks' = Put(tasks, r.task_id,
                  TaskRecord(r.task_id, "completed", ChatResponse(r.run), ""))
  /\ runs' = runs \ {r}
  /\ UNCHANGED <<task_requests, task_reply>>
  /\ UNCHANGED notA2AVars

\* ChatService.chat raises: execute_task stores the error as failed
ChatRaises(n) ==
  \E r \in runs :
  /\ r.run = n
  /\ contexts' = update_context_status(contexts, r.task_id, "failed", "",
                                       ChatError(r.run))
  /\ tasks' = Put(tasks, r.task_id,
                  TaskRecord(r.task_id, "failed", "", ChatError(r.run)))
  /\ runs' = runs \ {r}
  /\ UNCHANGED <<task_requests, task_reply>>
  /\ UNCHANGED notA2AVars

\* GET /agents/{agent_id}/tasks/{task_id}: get_task_status
PollTask(t) ==
  /\ task_requests < MaxTaskRequests
  /\ task_reply' = Reply("poll", t,
                         IF t \in DOMAIN tasks THEN tasks[t] ELSE NotFound404)
  /\ task_requests' = task_requests + 1
  /\ UNCHANGED <<contexts, tasks, runs>>
  /\ UNCHANGED notA2AVars

\* POST /agents/{agent_id}/tasks/{task_id}/cancel: cancel_task
CancelTask(t) ==
  /\ task_requests < MaxTaskRequests
  /\ IF t \notin DOMAIN contexts
       THEN /\ task_reply' = Reply("cancel", t, NotFound404)
            /\ UNCHANGED <<contexts, tasks>>
     ELSE IF IsFinal(contexts[t].status)
       THEN /\ task_reply' =
                 Reply("cancel", t,
                       IF t \in DOMAIN tasks THEN tasks[t] ELSE NotFound404)
            /\ UNCHANGED <<contexts, tasks>>
     ELSE /\ contexts' = update_context_status(contexts, t, "cancelled", "", "")
          /\ tasks' = Put(tasks, t, TaskRecord(t, "cancelled", "", ""))
          /\ task_reply' = Reply("cancel", t, TaskRecord(t, "cancelled", "", ""))
  /\ task_requests' = task_requests + 1
  /\ UNCHANGED runs
  /\ UNCHANGED notA2AVars

A2ANext ==
  \/ \E t \in TaskIds : SubmitTask(t)
  \/ \E n \in 1..MaxTaskRequests : ChatReturns(n)
  \/ \E n \in 1..MaxTaskRequests : ChatRaises(n)
  \/ \E t \in TaskIds : PollTask(t)
  \/ \E t \in TaskIds : CancelTask(t)

(***************************************************************************)
(* ToolExecutor: core/executor.py                                          *)
(*                                                                         *)
(* execute runs without a suspension from its limit check to the await of  *)
(* the tool, so the check and the increment of the counter are one step;   *)
(* the call then waits for the tool.  The coroutines of a batch are        *)
(* started by asyncio.gather in list order, and calls of other callers can *)
(* start before, between and after them.                                   *)
(***************************************************************************)

\* ToolExecutor(max_calls=2), the executor examined
max_calls == 2

\* tool names: one the registry knows, one it does not
ToolNames == {"web_search", "no_such_tool"}

\* ToolRegistry.get(tool_name) returns a tool
Registered(tool_name) == tool_name = "web_search"

\* how the await of a tool ends: the tool returns its ToolResult,
\* asyncio.wait_for times out, the call raises (TypeError or another
\* Exception: both are turned into a non-ok ToolResult)
ToolEndings == {"success", "timeout", "exception"}

\* a ToolResult, with the tool it answers for and whether the tool was called
ToolResult(tool_name, kind, invoked) ==
  [tool |-> tool_name, kind |-> kind, success |-> (kind = "success"),
   invoked |-> invoked]

NoResult == ToolResult("", "none", FALSE)

\* a limit check that lets one call too many through
OverLimit_late(count) == count > max_calls

\* execute: self._call_count >= self.max_calls
OverLimit(count) == count >= max_calls

\* execute up to the await of the tool: the ToolResult it returns at once
\* (kind "dispatched" when it goes on to call the tool) and the counter
ExecuteBegin(count, tool_name) ==
  IF OverLimit(count)
    THEN [result |-> ToolResult(tool_name, "over_limit", FALSE), count |-> count]
  ELSE IF ~Registered(tool_name)
    THEN [result |-> ToolResult(tool_name, "unknown_tool", FALSE),
          count |-> count]
  ELSE [result |-> ToolResult(tool_name, "dispatched", TRUE),
        count |-> count + 1]

\* a slice that keeps every call
Executable_all(calls, remaining_calls) == calls

\* execute_parallel: calls[:remaining_calls], for 0 <= remaining_calls
Executable(calls, remaining_calls) ==
  SubSeq(calls, 1, IF remaining_calls < Len(calls) THEN remaining_calls
                   ELSE Len(calls))

\* execute_parallel: calls[remaining_calls:]
Overflow(calls, remaining_calls) ==
  SubSeq(calls, remaining_calls + 1, Len(calls))

\* execute_parallel: the error result appended for a call of the overflow
OverflowResult(tool_name) == ToolResult(tool_name, "not_executed", FALSE)

OverflowResults(calls) == [i \in DOMAIN calls |-> OverflowResult(calls[i])]

NoBatch ==
  [open |-> FALSE, calls |-> <<>>, remaining_calls |-> 0, executable |-> <<>>,
   overflow |-> <<>>, results |-> <<>>, waiting |-> {}, disturbed |-> FALSE]

NoBatchReply ==
  [returned |-> FALSE, calls |-> <<>>, remaining_calls |-> 0, results |-> <<>>,
   disturbed |-> FALSE]

ExecutorInit ==
  /\ executor_count = 0
  /\ running = {}
  /\ dispatched_tools = 0
  /\ exec_started = 0
  /\ exec_reply = NoResult
  /\ batch = NoBatch
  /\ batch_reply = NoBatchReply

\* the coroutines of the batch that asyncio.gather has not started yet
BatchStarting == batch.open /\ Len(batch.results) < Len(batch.executable)

\* reset_call_count()
ResetCallCount ==
  /\ executor_count > 0
  /\ executor_count' = 0
  /\ dispatched_tools' = 0
  /\ UNCHANGED <<running, exec_started, exec_reply, batch, batch_reply>>
  /\ UNCHANGED notExecutorVars

\* a caller awaits execute(tool_name, arguments)
ExecuteStart(tool_name) ==
  /\ exec_started < MaxExecutorCalls
  /\ LET b == ExecuteBegin(executor_count, tool_name)
     IN  /\ executor_count' = b.count
         /\ IF b.result.kind = "dispatched"
              THEN /\ running' = running \cup
                        {[id |-> exec_started + 1, tool |-> tool_name,
                          member |-> 0]}
                   /\ dispatched_tools' = dispatched_tools + 1
                   /\ batch' = IF BatchStarting
                                 THEN [batch EXCEPT !.disturbed = TRUE]
                                 ELSE batch
                   /\ UNCHANGED exec_reply
              ELSE /\ exec_reply' = b.result
                   /\ UNCHANGED <<running, dispatched_tools, batch>>
  /\ exec_started' = exec_started + 1
  /\ UNCHANGED batch_reply
  /\ UNCHANGED notExecutorVars

\* a caller awaits execute_parallel(calls): the budget is read, the list is
\* cut and asyncio.gather schedules one execute per call kept
ParallelBegin ==
  /\ ~batch.open
  /\ \E calls \in SeqsUpTo(ToolNames, MaxBatch) :
       LET remaining_calls == max_calls - executor_count
           cut == Len(calls) > remaining_calls
           executable == IF cut THEN Executable(calls, remaining_calls)
                         ELSE calls
       IN  /\ calls # <<>>
           /\ exec_started + Len(executable) <= MaxExecutorCalls
           /\ batch' = [open |-> TRUE, calls |-> calls,
                        remaining_calls |-> remaining_calls,
                        executable |-> executable,
                        overflow |-> IF cut
                                       THEN Overflow(calls, remaining_calls)
                                       ELSE <<>>,
                        results |-> <<>>, waiting |-> {},
                        disturbed |-> FALSE]
  /\ batch_reply' = NoBatchReply
  /\ UNCHANGED <<executor_count, running, dispatched_tools, exec_started,
                 exec_reply>>
  /\ UNCHANGED notExecutorVars

\* the next coroutine of the batch starts: execute up to the await of the
\* tool.  results holds a result for every member started; a member that
\* waits for its tool holds NoResult until the tool ends.
MemberStart ==
  /\ BatchStarting
  /\ LET i == Len(batch.results) + 1
         b == ExecuteBegin(executor_count, batch.executable[i])
     IN  /\ executor_count' = b.count
         /\ IF b.result.kind = "dispatched"
              THEN /\ running' = running \cup
                        {[id |-> exec_started + 1,
                          tool |-> batch.executable[i], member |-> i]}
                   /\ dispatched_tools' = dispatched_tools + 1
                   /\ batch' = [batch EXCEPT
                                  !.results = Append(@, NoResult),
                                  !.waiting = @ \cup {i}]
              ELSE /\ batch' = [batch EXCEPT !.results = Append(@, b.result)]
                   /\ UNCHANGED <<running, dispatched_tools>>
  /\ exec_started' = exec_started + 1
  /\ UNCHANGED <<exec_reply, batch_reply>>
  /\ UNCHANGED notExecutorVars

\* the await of the tool of call id ends; execute returns its ToolResult
ToolEnds(id) ==
  \E c \in running : \E o \in ToolEndings :
    /\ c.id = id
    /\ running' = running \ {c}
    /\ IF c.member = 0
         THEN /\ exec_reply' = ToolResult(c.tool, o, TRUE)
              /\ UNCHANGED batch
         ELSE /\ batch' = [batch EXCEPT
                             !.results[c.member] = ToolResult(c.tool, o, TRUE),
                             !.waiting = @ \ {c.member}]
              /\ UNCHANGED exec_reply
    /\ UNCHANGED <<executor_count, dispatched_tools, exec_started, batch_reply>>
    /\ UNCHANGED notExecutorVars

\* asyncio.gather returns the results in list order; execute_parallel appends
\* the results of the overflow and returns
ParallelEnd ==
  /\ batch.open
  /\ Len(batch.results) = Len(batch.executable)
  /\ batch.waiting = {}
  /\ batch_reply' = [returned |-> TRUE, calls |-> batch.calls,
                     remaining_calls |-> batch.remaining_calls,
                     results |-> batch.results \o OverflowResults(batch.overflow),
                     disturbed |-> batch.disturbed]
  /\ batch' = NoBatch
  /\ UNCHANGED <<executor_count, running, dispatched_tools, exec_started,
                 exec_reply>>
  /\ UNCHANGED notExecutorVars

ExecutorNext ==
  \/ ResetCallCount
  \/ \E tool_name \in ToolNames : ExecuteStart(tool_name)
  \/ ParallelBegin
  \/ MemberStart
  \/ \E id \in 1..MaxExecutorCalls : ToolEnds(id)
  \/ ParallelEnd

(***************************************************************************)
(* Template resolution: services/workflow_engine.py                        *)
(* A string is a sequence of tokens: the characters "{", "}" and " ", the  *)
(* identifier x and the text a:x (a key and its value expression).         *)
(***************************************************************************)
TemplateChars == {"{", "}", " ", "x", "a:x"}

\* a Python value: its type and what str() prints for it, in tokens
PyValue(type, text) == [type |-> type, text |-> text]

NoneValue == PyValue("NoneType", <<>>)

\* what context.to_dict() may hold under x (None: there is no such value)
ContextValues ==
  {NoneValue, PyValue("int", <<"7">>), PyValue("str", <<"seven">>)}

\* repr(value) inside the str() of a dict
Repr(value) ==
  IF value = NoneValue THEN <<"None">>
  ELSE IF value.type = "str" THEN <<"'">> \o value.text \o <<"'">>
  ELSE value.text

\* str(value)
str(value) == value.text

\* str.strip()
RECURSIVE lstrip(_)
lstrip(s) == IF s # <<>> /\ s[1] = " " THEN lstrip(Tail(s)) ELSE s

RECURSIVE rstrip(_)
rstrip(s) ==
  IF s # <<>> /\ s[Len(s)] = " " THEN rstrip(SubSeq(s, 1, Len(s) - 1)) ELSE s

strip(s) == rstrip(lstrip(s))

\* the expression without the white space between its tokens
Compact(expression) == SelectSeq(expression, LAMBDA c : c # " ")

\* two identifiers with white space between them: not an expression
SplitIdentifier(expression) ==
  \E i, j \in DOMAIN expression :
    /\ i + 1 < j
    /\ expression[i] = "x"
    /\ expression[j] = "x"
    /\ \A k \in (i + 1)..(j - 1) : expression[k] = " "

\* jmespath.search(expression, context_dict): the value, or raised for a text
\* that is not a JMESPath expression.  x is the field x of the context, a
\* longer run of x an identifier the context does not have, {a:x} the
\* multiselect hash with the one key a.
search(expression, x_value) ==
  LET e == Compact(expression)
  IN  IF SplitIdentifier(expression) \/ e = <<>>
        THEN [raised |-> TRUE, value |-> NoneValue]
      ELSE IF \A i \in DOMAIN e : e[i] = "x"
        THEN [raised |-> FALSE,
              value |-> IF Len(e) = 1 THEN x_value ELSE NoneValue]
      ELSE IF e = <<"{", "a:x", "}">>
        THEN [raised |-> FALSE,
              value |-> PyValue("dict",
                                <<"{", "'a':">> \o Repr(x_value) \o <<"}">>)]
      ELSE [raised |-> TRUE, value |-> NoneValue]

\* EXPR is a JMESPath expression
IsExpression(expression) == ~search(expression, NoneValue).raised

\* [^}]+ from index i: the length of the longest run of characters other
\* than "}"
RECURSIVE RunLength(_, _)
RunLength(s, i) ==
  IF i <= Len(s) /\ s[i] # "}" THEN 1 + RunLength(s, i + 1) ELSE 0

\* re.findall(r"\{\{([^}]+)\}\}", s), scanning from index i: the groups of
\* the matches, which do not overlap
RECURSIVE findall_from(_, _)
findall_from(s, i) ==
  IF i + 4 > Len(s) THEN <<>>
  ELSE LET n == RunLength(s, i + 2)
       IN  IF /\ s[i] = "{"
              /\ s[i + 1] = "{"
              /\ n >= 1
              /\ i + n + 3 <= Len(s)
              /\ s[i + n + 2] = "}"
              /\ s[i + n + 3] = "}"
             THEN <<SubSeq(s, i + 2, i + n + 1)>> \o findall_from(s, i + n + 4)
             ELSE findall_from(s, i + 1)

findall(s) == findall_from(s, 1)

\* str.replace(old, new), old not empty
RECURSIVE replace(_, _, _)
replace(s, old, new) ==
  IF Len(s) < Len(old) THEN s
  ELSE IF SubSeq(s, 1, Len(old)) = old
    THEN new \o replace(SubSeq(s, Len(old) + 1, Len(s)), old, new)
  ELSE <<Head(s)>> \o replace(Tail(s), old, new)

\* f"{{{{{match}}}}}"
Braced(match) == <<"{", "{">> \o match \o <<"}", "}">>

\* the loop over the matches: each is replaced by the str() of its value, by
\* nothing when the value is None or the search raises
RECURSIVE replace_matches(_, _, _)
replace_matches(result, matches, x_value) ==
  IF matches = <<>> THEN result
  ELSE LET found == search(strip(Head(matches)), x_value)
           new == IF found.raised \/ found.value = NoneValue THEN <<>>
                  ELSE str(found.value)
       IN  replace_matches(replace(result, Braced(Head(matches)), new),
                           Tail(matches), x_value)

\* _resolve_template(template, context) for a template that is a str
_resolve_template(template, x_value) ==
  LET matches == findall(template)
  IN  IF matches = <<>> THEN PyValue("str", template)
      ELSE IF Len(matches) = 1 /\ template = Braced(matches[1])
        THEN LET found == search(strip(matches[1]), x_value)
             IN  IF found.raised THEN NoneValue ELSE found.value
      ELSE PyValue("str", replace_matches(template, matches, x_value))

\* the EXPR of the template {{EXPR}}
ExprOf(template) == SubSeq(template, 3, Len(template) - 2)

TemplateInit ==
  resolution = [called |-> FALSE, template |-> <<>>, x_value |-> NoneValue,
                returned |-> NoneValue]

\* _resolve_template is called with a template "{{EXPR}}" and a context
ResolveTemplate ==
  /\ \E expression \in SeqsUpTo(TemplateChars, MaxExprLen) :
       \E x_value \in ContextValues :
         /\ expression # <<>>
         /\ resolution' =
              [called |-> TRUE, template |-> Braced(expression),
               x_value |-> x_value,
               returned |-> _resolve_template(Braced(expression), x_value)]
  /\ UNCHANGED notTemplateVars

TemplateNext == ResolveTemplate

(***************************************************************************)
(* The Celery worker: tasks/workflow_tasks.py, tasks/celery_app.py         *)
(***************************************************************************)
\* @celery_app.task(bind=True, max_retries=3)
max_retries == 3

\* the Workflow rows: is_active of each workflow
worker_workflows == [w_on |-> TRUE, w_off |-> FALSE]

\* the WebhookTrigger rows get_by_path finds: webhook_path -> workflow_id
webhook_paths == [hook_on |-> "w_on", hook_off |-> "w_off"]

\* the ScheduleTrigger rows
schedule_triggers ==
  [s_on |-> [workflow_id |-> "w_on", is_active |-> TRUE],
   s_off |-> [workflow_id |-> "w_off", is_active |-> TRUE],
   s_idle |-> [workflow_id |-> "w_on", is_active |-> FALSE]]

\* how a run of _execute goes once the task has its arguments: the Workflow
\* row is gone (deleted since the message was sent), a database call raises
\* before the engine runs, engine.execute returns a completed or a failed
\* execution and the commit succeeds, or the commit raises
RunOutcomes == {"not_found", "db_error", "completed", "failed", "commit_error"}

\* a task message: task.delay(...)
TaskMessage(task, arg) ==
  [task |-> task, arg |-> arg, state |-> "PENDING", runs |-> 0,
   retries |-> 0, executed |-> "", result |-> "none"]

\* what Celery does with a task whose body raised: the body never calls
\* self.retry() and the decorator names no autoretry_for, so max_retries is
\* not consulted; the task is marked FAILURE and its message acknowledged
TaskRaised(job) == [job EXCEPT !.state = "FAILURE", !.result = "raised"]

\* the task returned a dict
TaskReturned(job, value) == [job EXCEPT !.state = "SUCCESS", !.result = value]

\* engine.execute(workflow) through the commit, in a task
EngineRun(job, j, workflow_id, outcome) ==
  IF outcome = "db_error" THEN [job |-> TaskRaised(job), rows |-> {}]
  ELSE IF outcome = "commit_error"
    THEN [job |-> TaskRaised([job EXCEPT !.executed = workflow_id]),
          rows |-> {}]
  ELSE [job |-> TaskReturned([job EXCEPT !.executed = workflow_id], outcome),
        rows |-> {[job |-> j, workflow_id |-> workflow_id,
                   status |-> outcome]}]

\* execute_workflow_task(workflow_id, trigger_type, trigger_data)
execute_workflow_task(job, j, outcome) ==
  IF outcome = "not_found" THEN [job |-> TaskRaised(job), rows |-> {}]
  ELSE EngineRun(job, j, job.arg, outcome)

\* scheduled_workflow_trigger(schedule_trigger_id)
scheduled_workflow_trigger(job, j, outcome) ==
  LET trigger == schedule_triggers[job.arg]
  IN  IF ~trigger.is_active
        THEN [job |-> TaskReturned(job, "skipped"), rows |-> {}]
      ELSE IF outcome = "not_found"
        THEN [job |-> TaskReturned(job, "skipped"), rows |-> {}]
      ELSE EngineRun(job, j, trigger.workflow_id, outcome)

WorkerInit ==
  /\ worker_jobs = <<>>
  /\ worker_executions = {}

\* handle_webhook for a request that finds its trigger and passes the
\* signature check: execute_workflow_task.delay(workflow_id=...)
HandleWebhook(webhook_path) ==
  /\ Len(worker_jobs) < MaxJobs
  /\ worker_jobs' = Append(worker_jobs,
                           TaskMessage("execute_workflow_task",
                                       webhook_paths[webhook_path]))
  /\ UNCHANGED worker_executions
  /\ UNCHANGED notWorkerVars

\* Celery Beat fires the entry of a schedule trigger
BeatFires(schedule_trigger_id) ==
  /\ Len(worker_jobs) < MaxJobs
  /\ worker_jobs' = Append(worker_jobs,
                           TaskMessage("scheduled_workflow_trigger",
                                       schedule_trigger_id))
  /\ UNCHANGED worker_executions
  /\ UNCHANGED notWorkerVars

\* a worker receives the message and starts the task (task_track_started)
WorkerStarts(j) ==
  /\ j \in DOMAIN worker_jobs
  /\ worker_jobs[j].state = "PENDING"
  /\ worker_jobs' = [worker_jobs EXCEPT ![j].state = "STARTED",
                                        ![j].runs = @ + 1]
  /\ UNCHANGED worker_executions
  /\ UNCHANGED notWorkerVars

\* the task body runs to its end: asyncio.run(_execute())
TaskEnds(j) ==
  /\ j \in DOMAIN worker_jobs
  /\ worker_jobs[j].state = "STARTED"
  /\ \E outcome \in RunOutcomes :
       LET job == worker_jobs[j]
           end == IF job.task = "execute_workflow_task"
                    THEN execute_workflow_task(job, j, outcome)
                    ELSE scheduled_workflow_trigger(job, j, outcome)
       IN  /\ worker_jobs' = [worker_jobs EXCEPT ![j] = end.job]
           /\ worker_executions' = worker_executions \cup end.rows
  /\ UNCHANGED notWorkerVars

WorkerNext ==
  \/ \E webhook_path \in DOMAIN webhook_paths : HandleWebhook(webhook_path)
  \/ \E schedule_trigger_id \in DOMAIN schedule_triggers :
       BeatFires(schedule_trigger_id)
  \/ \E j \in 1..MaxJobs : WorkerStarts(j)
  \/ \E j \in 1..MaxJobs : TaskEnds(j)

(***************************************************************************)
(* Webhook trigger creation: api/routes/triggers.py, db/repository.py      *)
(* Every request has its own database session: it reads the committed      *)
(* rows, and its own insert is seen by the others once it has committed.   *)
(***************************************************************************)
TriggerPaths == {"hooks/a", "hooks/b"}

\* WebhookTriggerRepository.get_by_path: an active trigger with the path
path_in_use(rows, webhook_path) ==
  \E row \in rows : row.webhook_path = webhook_path /\ row.is_active

\* what db.flush() of the new row can do when an active row has the path
\* already: the WebhookTrigger table is declared outside the files at hand,
\* with a unique index on the path (IntegrityError) or without (inserted)
FlushOutcomes(rows, webhook_path) ==
  IF path_in_use(rows, webhook_path) THEN {"inserted", "integrity_error"}
  ELSE {"inserted"}

TriggerInit ==
  /\ trigger_rows = {}
  /\ creates = <<>>

\* create_webhook_trigger up to trigger_repo.create: the ownership check and
\* the duplicate check
CreateChecks(webhook_path, owned) ==
  /\ Len(creates) < MaxCreates
  /\ creates' = Append(creates,
       [webhook_path |-> webhook_path,
        code |-> IF ~owned THEN 404
                 ELSE IF path_in_use(trigger_rows, webhook_path) THEN 409
                 ELSE 0])
  /\ UNCHANGED trigger_rows
  /\ UNCHANGED notTriggerVars

\* create_webhook_trigger from trigger_repo.create on: flush, commit, 201
CreateCommits(c) ==
  /\ c \in DOMAIN creates
  /\ creates[c].code = 0
  /\ \E outcome \in FlushOutcomes(trigger_rows, creates[c].webhook_path) :
       IF outcome = "inserted"
         THEN /\ trigger_rows' = trigger_rows \cup
                   {[id |-> c, webhook_path |-> creates[c].webhook_path,
                     is_active |-> TRUE]}
              /\ creates' = [creates EXCEPT ![c].code = 201]
         ELSE /\ creates' = [creates EXCEPT ![c].code = 500]
              /\ UNCHANGED trigger_rows
  /\ UNCHANGED notTriggerVars

\* delete_webhook_trigger of the caller's own trigger
DeleteTrigger(id) ==
  /\ \E row \in trigger_rows : row.id = id /\ trigger_rows' = trigger_rows \ {row}
  /\ UNCHANGED creates
  /\ UNCHANGED notTriggerVars

TriggerNext ==
  \/ \E webhook_path \in TriggerPaths : \E owned \in BOOLEAN :
       CreateChecks(webhook_path, owned)
  \/ \E c \in 1..MaxCreates : CreateCommits(c)
  \/ \E id \in 1..MaxCreates : DeleteTrigger(id)

(***************************************************************************)
(* Conversation history: the message list ChatService builds for the LLM   *)
(***************************************************************************)

\* the conversations a turn may be resolved to by _get_or_create_conversation
ConversationIds == {"c1", "c2"}

LLMChatMessage(role, content) == [role |-> role, content |-> content]

\* agent.system_prompt
system_prompt == <<"system_prompt">>

\* the text of the n-th turn's user message: every turn says something new
UserText(n) == <<"user_message", n>>

NoLlmRequest ==
  [conversation_id |-> "none", user_message |-> <<>>, messages |-> <<>>,
   answered |-> TRUE]

\* a row of the messages table
MessageRow(conversation_id, role, content, created_at) ==
  [conversation_id |-> conversation_id, role |-> role, content |-> content,
   created_at |-> created_at]

\* Message.created_at has server_default now(): the clock never goes back,
\* and two rows inserted in a row may get the same time
CreatedAtChoices == {db_now, db_now + 1}

\* order_by(Message.created_at.asc()) over the rows idx of a table: every
\* order the database may return, rows of the same time in any order
RECURSIVE order_by(_, _)
order_by(table, idx) ==
  IF idx = {} THEN {<<>>}
  ELSE UNION {{<<i>> \o rest : rest \in order_by(table, idx \ {i})} :
              i \in {k \in idx : \A l \in idx :
                                   table[k].created_at <= table[l].created_at}}

\* MessageRepository.list_by_conversation: the possible results
list_by_conversation(table, conversation_id) ==
  {[k \in 1..Len(order) |-> table[order[k]]] :
     order \in order_by(table, {i \in 1..Len(table) :
                            table[i].conversation_id = conversation_id})}

\* a message list that leaves the new message to the history read back
build_messages_history_only(history, user_message) ==
  <<LLMChatMessage("system", system_prompt)>>
    \o [k \in 1..Len(history) |->
          LLMChatMessage(history[k].role, history[k].content)]

\* ChatService._build_messages, given the history it read
build_messages(history, user_message) ==
  <<LLMChatMessage("system", system_prompt)>>
    \o [k \in 1..Len(history) |->
          LLMChatMessage(history[k].role, history[k].content)]
    \o <<LLMChatMessage("user", user_message)>>

HistoryInit ==
  /\ messages_table = <<>>
  /\ db_now = 0
  /\ llm_request = NoLlmRequest
  /\ turns = 0

\* chat / chat_stream / chat_stream_with_tools up to the first LLM call: the
\* user message is stored and flushed, then the message list is built from
\* the history read in the same session
TurnBegins(conv_id) ==
  /\ turns < MaxTurns
  /\ llm_request.answered
  /\ \E created_at \in CreatedAtChoices :
       LET user_message == UserText(turns + 1)
           table == Append(messages_table,
                      MessageRow(conv_id, "user", user_message, created_at))
       IN  /\ messages_table' = table
           /\ db_now' = created_at
           /\ \E history \in list_by_conversation(table, conv_id) :
                llm_request' =
                  [conversation_id |-> conv_id,
                   user_message |-> user_message,
                   messages |-> build_messages(history, user_message),
                   answered |-> FALSE]
  /\ turns' = turns + 1
  /\ UNCHANGED notHistoryVars

\* the LLM answers without tool calls: the final assistant message is stored
TurnAnswered ==
  /\ ~llm_request.answered
  /\ \E created_at \in CreatedAtChoices :
       /\ messages_table' =
            Append(messages_table,
              MessageRow(llm_request.conversation_id, "assistant",
                         <<"answer", turns>>, created_at))
       /\ db_now' = created_at
  /\ llm_request' = [llm_request EXCEPT !.answered = TRUE]
  /\ UNCHANGED turns
  /\ UNCHANGED notHistoryVars

\* the LLM call raises: the turn ends without an assistant message; whether
\* the session that holds the flushed user message is committed or rolled
\* back is the caller's affair, and both are possible
TurnRaises ==
  /\ ~llm_request.answered
  /\ \E rolled_back \in BOOLEAN :
       messages_table' =
         IF rolled_back
         THEN SubSeq(messages_table, 1, Len(messages_table) - 1)
         ELSE messages_table
  /\ llm_request' = [llm_request EXCEPT !.answered = TRUE]
  /\ UNCHANGED <<db_now, turns>>
  /\ UNCHANGED notHistoryVars

HistoryNext ==
  \/ \E conv_id \in ConversationIds : TurnBegins(conv_id)
  \/ TurnAnswered
  \/ TurnRaises

(***************************************************************************)
(* Workflow context: WorkflowContext.set_result and to_dict                *)
(***************************************************************************)

\* ids the nodes of a workflow may have: node ids are free text of the
\* workflow's author
ContextNodeIds == {"fetch", "trigger", "notify"}

ContextValue(kind, v) == [kind |-> kind, v |-> v]

\* trigger payloads (None becomes the empty dict) and node results
TriggerPayloads == {ContextValue("payload", "empty"), ContextValue("payload", "push")}

NodeResults == {ContextValue("result", "r1"), ContextValue("result", "r2")}

\* WorkflowContext.__init__
WorkflowContext(trigger_data) ==
  [trigger_data |-> trigger_data, _results |-> EmptyMap, running |-> TRUE]

\* WorkflowContext.set_result
set_result(context, node_id, result) ==
  [context EXCEPT !._results = Put(@, node_id, result)]

\* WorkflowContext.to_dict: {"trigger": trigger_data, **_results}; a key of
\* _results written after "trigger" takes its place
to_dict(context) ==
  [k \in {"trigger"} \cup DOMAIN context._results |->
     IF k \in DOMAIN context._results
     THEN context._results[k] ELSE context.trigger_data]

NoContext ==
  [trigger_data |-> ContextValue("payload", "empty"), _results |-> EmptyMap,
   running |-> FALSE]

ContextInit ==
  /\ wf_context = NoContext
  /\ node_view = EmptyMap

\* execute(): context = WorkflowContext(trigger_data)
ContextCreated(trigger_data) ==
  /\ ~wf_context.running
  /\ wf_context' = WorkflowContext(trigger_data)
  /\ node_view' = EmptyMap
  /\ UNCHANGED notContextVars

\* one pass of the node loop: _execute_node reads context.to_dict() (template
\* resolution, transform, 'return' output), then its result is stored
NodeCompletes(node_id, result) ==
  /\ wf_context.running
  /\ node_id \notin DOMAIN wf_context._results
  /\ node_view' = to_dict(wf_context)
  /\ wf_context' = set_result(wf_context, node_id, result)
  /\ UNCHANGED notContextVars

\* _execute_node raises after reading the context: nothing is stored and the
\* node loop ends
NodeRaises(node_id) ==
  /\ wf_context.running
  /\ node_id \notin DOMAIN wf_context._results
  /\ node_view' = to_dict(wf_context)
  /\ wf_context' = [wf_context EXCEPT !.running = FALSE]
  /\ UNCHANGED notContextVars

\* the node loop is through
ExecutionEnds ==
  /\ wf_context.running
  /\ wf_context' = [wf_context EXCEPT !.running = FALSE]
  /\ UNCHANGED node_view
  /\ UNCHANGED notContextVars

ContextNext ==
  \/ \E trigger_data \in TriggerPayloads : ContextCreated(trigger_data)
  \/ \E node_id \in ContextNodeIds : \E result \in NodeResults :
       NodeCompletes(node_id, result)
  \/ \E node_id \in ContextNodeIds : NodeRaises(node_id)
  \/ ExecutionEnds

(***************************************************************************)
(* Schedule reconciliation: sync_schedule_triggers and the schedule routes *)
(***************************************************************************)

\* ids of schedule trigger rows
ScheduleTriggerIds == 1..MaxScheduleTriggers

\* A cron expression, by what the code asks of it: the number of fields
\* split() finds, what celery's crontab() does with the five fields, and what
\* croniter does with the expression.  The two libraries parse on their own:
\*   plain          "0 9 * * *"       both take it
\*   four_fields    "0 9 * *"         both refuse it
\*   croniter_only  "0 9 * JAN *"     croniter knows month names, crontab()
\*                                    raises ValueError (also "0 9 * * 7")
\*   celery_only    "0 9 * * sunday"  crontab() reads a weekday by its first
\*                                    three letters, croniter raises ValueError
\*   garbage        "x x x x x"       both raise ValueError
CronExpression(fields, celery, with_croniter) ==
  [fields |-> fields, crontab |-> celery, croniter |-> with_croniter]

CronExpressions ==
  [plain |-> CronExpression(5, "crontab", "ok"),
   four_fields |-> CronExpression(4, "ValueError", "ValueError"),
   croniter_only |-> CronExpression(5, "ValueError", "ok"),
   celery_only |-> CronExpression(5, "crontab", "ValueError"),
   garbage |-> CronExpression(5, "ValueError", "ValueError")]

CronNames == DOMAIN CronExpressions

\* parse_cron_to_celery: a crontab, or ValueError
parse_cron_to_celery(cron_expression) ==
  IF CronExpressions[cron_expression].fields # 5 THEN "ValueError"
  ELSE CronExpressions[cron_expression].crontab

\* validate_cron_expression
validate_cron_expression(cron_expression) ==
  /\ CronExpressions[cron_expression].fields = 5
  /\ CronExpressions[cron_expression].croniter = "ok"

\* get_next_run_time: a time, or the ValueError of croniter
get_next_run_time(cron_expression) == CronExpressions[cron_expression].croniter

NoRow == [cron_expression |-> "none", is_active |-> FALSE, exists |-> FALSE]

ScheduleTrigger(cron_expression, is_active) ==
  [cron_expression |-> cron_expression, is_active |-> is_active, exists |-> TRUE]

\* the body of the try block of sync_schedule_triggers for one trigger:
\* whether new_schedule has the trigger's entry when the block is left.  The
\* entry is assigned once parse_cron_to_celery has returned; croniter runs
\* after that, and its ValueError leaves the entry where it is.
entry_assigned(cron_expression) ==
  parse_cron_to_celery(cron_expression) = "crontab"

\* new_schedule as sync_schedule_triggers builds it from the active rows
new_schedule(rows) ==
  LET triggers == {id \in ScheduleTriggerIds :
                     rows[id].exists /\ rows[id].is_active}
      kept == {id \in triggers : entry_assigned(rows[id].cron_expression)}
  IN  [id \in kept |-> rows[id].cron_expression]

ScheduleInit ==
  /\ schedule_rows = [id \in ScheduleTriggerIds |-> NoRow]
  /\ beat_schedule = EmptyMap
  /\ synced = FALSE
  /\ schedule_reply = 0

\* POST .../schedules
create_schedule_trigger(cron_expression, owned) ==
  /\ \E id \in ScheduleTriggerIds : ~schedule_rows[id].exists
  /\ LET id == CHOOSE i \in ScheduleTriggerIds :
                 /\ ~schedule_rows[i].exists
                 /\ \A j \in ScheduleTriggerIds : ~schedule_rows[j].exists => i <= j
     IN  IF ~owned
         THEN schedule_reply' = 404 /\ UNCHANGED schedule_rows
         ELSE IF ~validate_cron_expression(cron_expression)
         THEN schedule_reply' = 400 /\ UNCHANGED schedule_rows
         ELSE IF get_next_run_time(cron_expression) # "ok"
         THEN schedule_reply' = 500 /\ UNCHANGED schedule_rows
         ELSE /\ schedule_reply' = 201
              /\ schedule_rows' =
                   [schedule_rows EXCEPT ![id] = ScheduleTrigger(cron_expression, TRUE)]
  /\ synced' = FALSE
  /\ UNCHANGED beat_schedule
  /\ UNCHANGED notScheduleVars

\* PATCH .../schedules/{trigger_id}/toggle
toggle_schedule_trigger(trigger_id, is_active) ==
  /\ IF ~schedule_rows[trigger_id].exists
     THEN schedule_reply' = 404 /\ UNCHANGED schedule_rows
     ELSE /\ schedule_reply' = 200
          /\ schedule_rows' =
               [schedule_rows EXCEPT ![trigger_id].is_active = is_active]
  /\ synced' = FALSE
  /\ UNCHANGED beat_schedule
  /\ UNCHANGED notScheduleVars

\* DELETE .../schedules/{trigger_id}
delete_schedule_trigger(trigger_id) ==
  /\ IF ~schedule_rows[trigger_id].exists
     THEN schedule_reply' = 404 /\ UNCHANGED schedule_rows
     ELSE /\ schedule_reply' = 204
          /\ schedule_rows' = [schedule_rows EXCEPT ![trigger_id] = NoRow]
  /\ synced' = FALSE
  /\ UNCHANGED beat_schedule
  /\ UNCHANGED notScheduleVars

\* one run of sync_schedule_triggers
sync_schedule_triggers ==
  /\ beat_schedule' = new_schedule(schedule_rows)
  /\ synced' = TRUE
  /\ UNCHANGED <<schedule_rows, schedule_reply>>
  /\ UNCHANGED notScheduleVars

ScheduleNext ==
  \/ \E cron_expression \in CronNames : \E owned \in BOOLEAN :
       create_schedule_trigger(cron_expression, owned)
  \/ \E trigger_id \in ScheduleTriggerIds : \E is_active \in BOOLEAN :
       toggle_schedule_trigger(trigger_id, is_active)
  \/ \E trigger_id \in ScheduleTriggerIds : delete_schedule_trigger(trigger_id)
  \/ sync_schedule_triggers

(***************************************************************************)
(* Specifications                                                          *)
(***************************************************************************)
\* the state of the engine before any execute() call, for a fixed workflow
EngineIdle ==
  /\ nodes = <<>>
  /\ edges = <<>>
  /\ pc = "idle"
  /\ status = "none"
  /\ node_results = EmptyMap
  /\ error = ""
  /\ started_at = FALSE
  /\ completed_at = FALSE
  /\ context_results = EmptyMap
  /\ local_node_results = EmptyMap
  /\ sorted_node_ids = <<>>
  /\ pos = 0
  /\ dispatched = <<>>
  /\ raised = <<>>

\* one execute() call on any workflow within the bounds
InitEngine == EngineInit /\ ChatInit /\ WebhookInit /\ ApiInit /\ A2AInit
  /\ ExecutorInit /\ TemplateInit
  /\ WorkerInit /\ TriggerInit /\ HistoryInit /\ ContextInit /\ ScheduleInit

SpecEngine == InitEngine /\ [][EngineNext]_vars

\* one chat turn
InitChat == EngineIdle /\ ChatInit /\ WebhookInit /\ ApiInit /\ A2AInit
  /\ ExecutorInit /\ TemplateInit
  /\ WorkerInit /\ TriggerInit /\ HistoryInit /\ ContextInit /\ ScheduleInit

SpecChat == InitChat /\ [][ChatNext]_vars

\* a bounded number of webhook requests
InitWebhook == EngineIdle /\ ChatInit /\ WebhookInit /\ ApiInit /\ A2AInit
  /\ ExecutorInit /\ TemplateInit
  /\ WorkerInit /\ TriggerInit /\ HistoryInit /\ ContextInit /\ ScheduleInit

SpecWebhook == InitWebhook /\ [][WebhookNext]_vars

\* a bounded number of requests to the API-key trigger
InitApi == EngineIdle /\ ChatInit /\ WebhookInit /\ ApiInit /\ A2AInit
  /\ ExecutorInit /\ TemplateInit
  /\ WorkerInit /\ TriggerInit /\ HistoryInit /\ ContextInit /\ ScheduleInit

SpecApi == InitApi /\ [][ApiNext]_vars

\* a bounded number of requests to the workflow routes and the API-key trigger
InitRoutes ==
  EngineIdle /\ ChatInit /\ WebhookInit /\ RoutesInit /\ A2AInit
  /\ ExecutorInit /\ TemplateInit
  /\ WorkerInit /\ TriggerInit /\ HistoryInit /\ ContextInit /\ ScheduleInit

SpecRoutes == InitRoutes /\ [][RoutesNext]_vars

\* a bounded number of requests to the API-key routes, the status route
\* included
InitStatus ==
  EngineIdle /\ ChatInit /\ WebhookInit /\ RoutesInit /\ A2AInit
  /\ ExecutorInit /\ TemplateInit
  /\ WorkerInit /\ TriggerInit /\ HistoryInit /\ ContextInit /\ ScheduleInit

SpecStatus == InitStatus /\ [][StatusNext]_vars

\* a bounded number of requests to the A2A task routes of one agent
InitA2A == EngineIdle /\ ChatInit /\ WebhookInit /\ ApiInit /\ A2AInit
  /\ ExecutorInit /\ TemplateInit
  /\ WorkerInit /\ TriggerInit /\ HistoryInit /\ ContextInit /\ ScheduleInit

SpecA2A == InitA2A /\ [][A2ANext]_vars

\* a bounded number of calls on one ToolExecutor
InitExecutor ==
  EngineIdle /\ ChatInit /\ WebhookInit /\ ApiInit /\ A2AInit
  /\ ExecutorInit /\ TemplateInit
  /\ WorkerInit /\ TriggerInit /\ HistoryInit /\ ContextInit /\ ScheduleInit

SpecExecutor == InitExecutor /\ [][ExecutorNext]_vars

\* calls of _resolve_template on whole-string templates
InitTemplate ==
  EngineIdle /\ ChatInit /\ WebhookInit /\ ApiInit /\ A2AInit
  /\ ExecutorInit /\ TemplateInit
  /\ WorkerInit /\ TriggerInit /\ HistoryInit /\ ContextInit /\ ScheduleInit

SpecTemplate == InitTemplate /\ [][TemplateNext]_vars

\* a bounded number of task messages and the worker that runs them
InitWorker ==
  EngineIdle /\ ChatInit /\ WebhookInit /\ ApiInit /\ A2AInit
  /\ ExecutorInit /\ TemplateInit
  /\ WorkerInit /\ TriggerInit /\ HistoryInit /\ ContextInit /\ ScheduleInit

SpecWorker == InitWorker /\ [][WorkerNext]_vars

\* a bounded number of requests that create webhook triggers
InitTriggers ==
  EngineIdle /\ ChatInit /\ WebhookInit /\ ApiInit /\ A2AInit
  /\ ExecutorInit /\ TemplateInit
  /\ WorkerInit /\ TriggerInit /\ HistoryInit /\ ContextInit /\ ScheduleInit

SpecTriggers == InitTriggers /\ [][TriggerNext]_vars

(***************************************************************************)
(* Properties of the workflow engine                                       *)
(***************************************************************************)
\* the edges of the workflow that run between two of its nodes
KnownEdges ==
  {<<edges[i].source, edges[i].target>> : i \in DOMAIN edges}
    \cap (Range(nodes) \X Range(nodes))

Compose(R, E) ==
  R \cup {<<pq[1][1], pq[2][2]>> : pq \in {x \in R \X E : x[1][2] = x[2][1]}}

RECURSIVE PathsUpTo(_, _)
PathsUpTo(E, k) == IF k <= 1 THEN E ELSE Compose(PathsUpTo(E, k - 1), E)

\* the pairs <<x, y>> with a path of edges from x to y
Reachable == PathsUpTo(KnownEdges, Len(AllNodeIds))

Cyclic == \E n \in Range(nodes) : <<n, n>> \in Reachable

\* every edge runs between two nodes of the workflow, and they form no cycle
WellFormed ==
  \A i \in DOMAIN edges :
    edges[i].source \in Range(nodes) /\ edges[i].target \in Range(nodes)

IsDag == WellFormed /\ ~Cyclic

Terminal == {"completed", "failed"}

Last(s) == s[Len(s)]

NoDuplicates(s) == \A i, j \in DOMAIN s : s[i] = s[j] => i = j

C3_StatusMachine ==
  [][ /\ status = "none" => status' \in {"none", "pending"}
      /\ status = "pending" => status' \in {"pending", "running"}
      /\ status = "running" => status' \in {"running"} \cup Terminal
      /\ status \in Terminal => UNCHANGED <<status, node_results, error>>
      /\ pc' = "returned" => (status' \in Terminal /\ completed_at')
    ]_vars

C3_Witness == pc = "returned" /\ status = "completed" /\ dispatched # <<>>

\* C4: when the dispatch of a node raises, the execution is 'failed' with the
\* exception's message as error and completed_at set, the raising node is the
\* last one dispatched, and no further node is dispatched afterwards.
C4_FailFast ==
  /\ [](raised # <<>> =>
          /\ pc = "returned"
          /\ status = "failed"
          /\ error = raised[2]
          /\ completed_at
          /\ dispatched # <<>>
          /\ Last(dispatched) = raised[1])
  /\ [][raised # <<>> => dispatched' = dispatched]_vars

C4_Witness ==
  /\ raised # <<>>
  /\ pc = "returned"
  /\ Len(dispatched) < Len(nodes)
  /\ Len(dispatched) >= 2

\* C5: when a node raises, the returned node_results holds {status: failed,
\* error: message} for the raising node, {status: completed, result} for every
\* node dispatched before it, and nothing for any other node.
C5_NodeResultsOnFailure ==
  (pc = "returned" /\ raised # <<>>) =>
    /\ DOMAIN node_results = Range(dispatched)
    /\ node_results[raised[1]] = [status |-> "failed", error |-> raised[2]]
    /\ \A n \in Range(dispatched) \ {raised[1]} :
         node_results[n] = [status |-> "completed", result |-> ExecuteNodeValue(n)]

(***************************************************************************)
(* Properties of the chat turn                                             *)
(***************************************************************************)
\* C6: a chat turn (chat or stream) makes at most MAX_TOOL_ITERATIONS calls
\* of llm.chat_with_tools; once that many are made and their tool calls are
\* handled, no further LLM call can be made and the turn can only end.
C6_BoundedLlmCalls ==
  /\ llm_calls <= MAX_TOOL_ITERATIONS
  /\ (cpc = "llm" /\ llm_calls = MAX_TOOL_ITERATIONS) =>
       /\ ~ENABLED (LlmRaises \/ LlmAnswers \/ LlmRequestsTools)
       /\ ENABLED LoopExhausted

C6_Witness ==
  /\ cpc = "ended"
  /\ llm_calls = MAX_TOOL_ITERATIONS
  /\ executor_calls > MAX_TOOL_ITERATIONS
  /\ last_outcome = "over_limit"

\* C7: in the event stream of chat_stream_with_tools every tool_call event is
\* directly followed by the tool_result event with the same id (as long as
\* the stream has not ended, the latest tool_call may still wait for it),
\* every tool_result directly follows its tool_call, and no id has two
\* tool_result events; so no content and no other tool_call comes in between.
C7_ToolCallResultPairs ==
  mode = "stream" =>
    /\ \A i \in DOMAIN events :
         events[i].type = "tool_call" =>
           IF i < Len(events)
           THEN events[i + 1] = Event("tool_result", events[i].id)
           ELSE cpc # "ended"
    /\ \A i \in DOMAIN events :
         events[i].type = "tool_result" =>
           i > 1 /\ events[i - 1] = Event("tool_call", events[i].id)
    /\ \A i, j \in DOMAIN events :
         (events[i].type = "tool_result" /\ events[i] = events[j]) => i = j

C7_Witness ==
  /\ mode = "stream"
  /\ cpc = "ended"
  /\ last_outcome = "over_limit"
  /\ Cardinality({i \in DOMAIN events : events[i].type = "tool_result"})
       > MAX_TOOL_CALLS_PER_TURN

TerminalEvents == {i \in DOMAIN events : events[i].type \in {"done", "error"}}

\* C8: when the event stream of chat_stream_with_tools has ended, it holds
\* exactly one terminal event ('done' or 'error') and that is its last event.
C8_OneTerminalEvent ==
  (mode = "stream" /\ cpc = "ended") =>
    /\ Cardinality(TerminalEvents) = 1
    /\ Last(events).type \in {"done", "error"}

\* the messages of a turn in which each of n responses held one tool call
RECURSIVE SingleToolTurn(_)
SingleToolTurn(n) ==
  IF n = 0 THEN <<Message("user", "user", NoId)>>
  ELSE SingleToolTurn(n - 1) \o ToolMessages(ToolCallId(n, 1))

\* the turn has returned, every response held exactly one tool call and
\* every tool succeeded
SingleToolTurnEnded ==
  cpc = "ended" /\ turn_result = "returned" /\ single_ok

\* C9 as stated: such a turn makes 5 LLM calls and 5 tool executions and
\* stores 11 messages (user, 5 assistant tool-call, 5 tool), in both forms.
C9_AsStated ==
  SingleToolTurnEnded =>
    /\ llm_calls = MAX_TOOL_ITERATIONS
    /\ executor_calls = MAX_TOOL_ITERATIONS
    /\ tool_invocations = MAX_TOOL_ITERATIONS
    /\ db_messages = SingleToolTurn(MAX_TOOL_ITERATIONS)

\* C9, amended: such a turn makes 5 LLM calls and 5 tool executions;
\* chat_stream_with_tools stores 11 messages (user, 5 assistant tool-call,
\* 5 tool); ChatService.chat stores these and a final assistant message, 12.
C9_MessagesOfCappedTurn ==
  SingleToolTurnEnded =>
    /\ llm_calls = MAX_TOOL_ITERATIONS
    /\ executor_calls = MAX_TOOL_ITERATIONS
    /\ tool_invocations = MAX_TOOL_ITERATIONS
    /\ db_messages =
         IF mode = "stream" THEN SingleToolTurn(MAX_TOOL_ITERATIONS)
         ELSE Append(SingleToolTurn(MAX_TOOL_ITERATIONS),
                     Message("assistant", "final", NoId))
    /\ Len(db_messages) =
         IF mode = "stream" THEN 2 * MAX_TOOL_ITERATIONS + 1
         ELSE 2 * MAX_TOOL_ITERATIONS + 2

C9_Witness == SingleToolTurnEnded /\ mode = "chat" /\ Len(db_messages) = 12

(***************************************************************************)
(* Properties of the webhook receiver                                      *)
(***************************************************************************)
\* the header is exactly "sha256=" followed by hex HMAC-SHA256(secret, body)
IsValidSignature(signature, secret, body) ==
  /\ signature.ascii
  /\ signature.prefix = "sha256="
  /\ signature.digest = HmacSha256Hex(secret, body)

\* the request addresses a trigger with a secret and its signature header is
\* missing or is not the valid one
BadSignatureRequest(req) ==
  \E t \in get_by_path(req.path) :
    /\ webhook_triggers[t].secret # ""
    /\ ~IsValidSignature(req.signature, webhook_triggers[t].secret, req.body)

\* C10: a request to a trigger with a secret whose signature header is missing
\* or not valid is answered 401, enqueues no job and leaves the triggers
\* (last_triggered_at) unchanged.
C10_BadSignatureRejected ==
  [][(now' # now /\ BadSignatureRequest(request')) =>
       /\ response' = 401
       /\ job_queue' = job_queue
       /\ webhook_triggers' = webhook_triggers]_vars

\* the part of C10 that holds of the code: such a request is never accepted,
\* enqueues no job and leaves the triggers unchanged
C10_NoAdmission ==
  [][(now' # now /\ BadSignatureRequest(request')) =>
       /\ response' \in {401, 500}
       /\ job_queue' = job_queue
       /\ webhook_triggers' = webhook_triggers]_vars

(***************************************************************************)
(* Properties of the API-key trigger, the rate limiter and the workflow    *)
(* routes                                                                  *)
(***************************************************************************)

\* the allowed calls for the key of a that fall in the interval of length
\* WINDOW_SECONDS that starts with a
AllowedInWindowFrom(a) ==
  {b \in allowed_calls :
     b.key = a.key /\ a.at <= b.at /\ b.at < a.at + WINDOW_SECONDS}

\* C11: for every key, over every rolling interval of length W at most
\* rate_limit calls of check_rate_limit return allowed = True, whatever the
\* timing of the calls.
C11_AtMostLimitPerWindow ==
  \A a \in allowed_calls :
    Cardinality(AllowedInWindowFrom(a)) <= user_api_keys[a.key].rate_limit

\* C12: when an operation of the store fails during check_rate_limit, the
\* check yields (allowed = False, remaining = 0), the caller is not admitted
\* and no job is enqueued for the request.
C12_FailClosedResult ==
  last.kv_failed =>
    /\ last.check.returned
    /\ ~last.check.allowed
    /\ last.check.remaining = 0
    /\ ~last.enqueued
    /\ last.response.code # 200

\* the part of C12 the code keeps: a request whose check hit a failing store
\* is not admitted and enqueues nothing
C12_NoAdmission ==
  last.kv_failed => ~last.enqueued /\ last.response.code # 200

\* the request l passes every check the API execute endpoint is to make
Admissible(l) ==
  LET ks == {k \in DOMAIN user_api_keys :
               user_api_keys[k].key_hash = Sha256Hex(l.caller)}
  IN  /\ ks # {}
      /\ \A k \in ks :
           /\ ~(user_api_keys[k].has_expiry
                  /\ user_api_keys[k].expires_at < l.verified_at)
           /\ user_api_keys[k].scopes \cap {"workflows:execute", "*"} # {}
           /\ l.workflow_id \in DOMAIN l.seen.workflows
           /\ l.seen.workflows[l.workflow_id].user_id = user_api_keys[k].user_id
           /\ l.seen.workflows[l.workflow_id].is_active
      /\ l.check.returned
      /\ l.check.allowed

\* C13: a step enqueues a job only as the answer to an API execute request
\* whose key exists and has not expired, whose key has the scope, whose
\* workflow belongs to the key's owner and is active and whose rate-limit
\* check was allowed, and it enqueues one job for that workflow; a request
\* answered with 401, 403, 404, 400 or 429 enqueues none.
C13_EnqueueOnlyAdmitted ==
  [][api_jobs' # api_jobs =>
       /\ last'.op = "api_execute"
       /\ Admissible(last')
       /\ last'.response.code = 200
       /\ last'.enqueued
       /\ Len(api_jobs') = Len(api_jobs) + 1
       /\ SubSeq(api_jobs', 1, Len(api_jobs)) = api_jobs
       /\ api_jobs'[Len(api_jobs')].workflow_id = last'.workflow_id]_vars

\* a job is in the queue and the request answered last was turned away for
\* a workflow of another user
C13_Witness ==
  /\ api_jobs # <<>>
  /\ last.op = "api_execute"
  /\ last.response.code = 404
  /\ last.workflow_id \in DOMAIN workflows

\* the user a request acts for ("" when the API key is unknown)
CallerUser(l) ==
  IF l.op = "api_execute"
    THEN LET ks == {k \in DOMAIN user_api_keys :
                      user_api_keys[k].key_hash = Sha256Hex(l.caller)}
         IN  IF ks = {} THEN "" ELSE user_api_keys[CHOOSE k \in ks : TRUE].user_id
    ELSE l.caller

\* the request answered last named a workflow of another user
CrossTenant(l) ==
  /\ l.op # "none"
  /\ l.workflow_id \in DOMAIN l.seen.workflows
  /\ l.seen.workflows[l.workflow_id].user_id # CallerUser(l)

\* C14: a request for a workflow the caller does not own gets the response
\* the same request gets when no row has the id (404 from the routes of the
\* owner's session, and from the API trigger once the key has passed its own
\* checks), and the workflow and its executions are left as they were.
C14_CrossTenantLooksAbsent ==
  CrossTenant(last) =>
    /\ last.response = last.if_absent
    /\ last.op \in RouteOps => last.response.code = 404
    /\ last.response.code \in {401, 403, 404, 429, 500}
    /\ workflows = last.seen.workflows
    /\ executions = last.seen.executions

\* a user has asked to delete a workflow of the other user
C14_Witness ==
  /\ CrossTenant(last)
  /\ last.op = "delete"
  /\ last.workflow_id \in DOMAIN workflows

(***************************************************************************)
(* Properties of the A2A tasks                                             *)
(***************************************************************************)

\* the step answers a cancel request for the task t
CancelStep(t) ==
  /\ task_reply'.n # task_reply.n
  /\ task_reply'.op = "cancel"
  /\ task_reply'.task_id = t

\* C15: cancel_task on a task whose status is completed or failed changes
\* neither the stored task record nor the stored context and returns the
\* stored record, whether or not execute_task calls are in flight.
C15_CancelOfFinalTaskIsNoOp ==
  [][\A t \in TaskIds :
       (/\ CancelStep(t)
        /\ t \in DOMAIN contexts
        /\ contexts[t].status \in {"completed", "failed"})
       => /\ contexts' = contexts
          /\ tasks' = tasks
          /\ task_reply'.returned = tasks[t]
          /\ task_reply'.returned.status \in {"completed", "failed"}]_vars

\* a completed task has been cancelled while another execute_task call for
\* the same id was waiting for its chat
C15_Witness ==
  /\ task_reply.op = "cancel"
  /\ task_reply.returned.status = "completed"
  /\ \E r \in runs : r.task_id = task_reply.task_id

\* the step ends an execute_task call for the task t
FinishStep(t) == \E r \in runs : r.task_id = t /\ r \notin runs'

\* C16: when the execute_task call of a cancelled task finishes, the stored
\* context and the stored task record stay cancelled.
C16_CancelledStaysCancelled ==
  [][\A t \in TaskIds :
       (/\ FinishStep(t)
        /\ t \in DOMAIN contexts
        /\ contexts[t].status = "cancelled")
       => /\ contexts'[t].status = "cancelled"
          /\ tasks'[t].status = "cancelled"]_vars

\* the status changes pending -> running -> {completed, failed, cancelled}
StatusOrder(a, b) ==
  \/ a = b
  \/ a = "pending" /\ b = "running"
  \/ a = "running" /\ b \in {"completed", "failed", "cancelled"}

\* C17: the status of a task, in its context and in its record, changes only
\* along pending -> running -> {completed, failed, cancelled}, whatever the
\* submissions (also of an id in use), polls and cancels.
C17_StatusOrderKept ==
  [][\A t \in TaskIds :
       t \in DOMAIN contexts =>
         /\ StatusOrder(contexts[t].status, contexts'[t].status)
         /\ StatusOrder(tasks[t].status, tasks'[t].status)]_vars

(***************************************************************************)
(* Properties of the ToolExecutor                                          *)
(***************************************************************************)

\* the step starts a call of execute (of a caller or of a batch)
ExecuteCalled == exec_started' = exec_started + 1

\* the ToolResult a call of execute returns in the step that starts it
ReturnedAtOnce ==
  IF Len(batch'.results) > Len(batch.results)
    THEN batch'.results[Len(batch'.results)]
    ELSE exec_reply'

\* C18: between two resets at most max_calls tools are invoked, with calls
\* of execute in flight at the same time; a call of execute made when the
\* counter has reached max_calls returns a non-ok over-limit result and
\* invokes no tool; a call that invokes a tool raises the counter by one, and
\* the end of the tool (result, timeout, exception) leaves the counter alone.
C18_CallLimit ==
  /\ [](dispatched_tools <= max_calls)
  /\ [][/\ (ExecuteCalled /\ executor_count >= max_calls) =>
             /\ running' = running
             /\ dispatched_tools' = dispatched_tools
             /\ executor_count' = executor_count
             /\ ReturnedAtOnce.kind = "over_limit"
             /\ ~ReturnedAtOnce.success
             /\ ~ReturnedAtOnce.invoked
        /\ (ExecuteCalled /\ running' # running) =>
             /\ executor_count' = executor_count + 1
             /\ dispatched_tools' = dispatched_tools + 1
        /\ (~ExecuteCalled /\ running' # running) =>
             executor_count' = executor_count]_vars

\* two tools are running at once and a third call has been turned away
C18_Witness ==
  /\ Cardinality(running) = max_calls
  /\ executor_count = max_calls
  /\ exec_reply.kind = "over_limit"

C20_WholeTemplateIsJmespath ==
  (resolution.called /\ IsExpression(ExprOf(resolution.template))) =>
    resolution.returned =
      search(ExprOf(resolution.template), resolution.x_value).value

\* the same for the expressions without a "}"
WholeTemplateWithoutBrace ==
  (/\ resolution.called
   /\ IsExpression(ExprOf(resolution.template))
   /\ "}" \notin Range(ExprOf(resolution.template))) =>
    resolution.returned =
      search(ExprOf(resolution.template), resolution.x_value).value

\* an expression with a value in the context was resolved to that value
WholeTemplateResolved ==
  /\ resolution.called
  /\ ExprOf(resolution.template) = <<" ", "x", " ">>
  /\ resolution.returned = PyValue("int", <<"7">>)

(***************************************************************************)
(* Properties of the Celery worker                                         *)
(***************************************************************************)
\* C21: an execute_workflow_task job that ended with an unhandled error and
\* is not run again was retried, at most max_retries times, and the database
\* holds an execution record of it in status failed.
C21_RetriedThenFailedRecord ==
  \A j \in DOMAIN worker_jobs :
    (/\ worker_jobs[j].task = "execute_workflow_task"
     /\ worker_jobs[j].state = "FAILURE") =>
      /\ worker_jobs[j].retries >= 1
      /\ worker_jobs[j].retries <= max_retries
      /\ \E row \in worker_executions : row.job = j /\ row.status = "failed"

\* C28: no execution record exists for a workflow whose is_active is false,
\* and no task has run the engine on such a workflow.
C28_InactiveNeverExecuted ==
  /\ \A row \in worker_executions : worker_workflows[row.workflow_id]
  /\ \A j \in DOMAIN worker_jobs :
       worker_jobs[j].executed # "" => worker_workflows[worker_jobs[j].executed]

(***************************************************************************)
(* Properties of webhook trigger creation                                  *)
(***************************************************************************)
\* a create request gets its response in this step
CreateAnswered(c) ==
  /\ c \in DOMAIN creates'
  /\ creates'[c].code # 0
  /\ (c \in DOMAIN creates => creates[c].code = 0)

\* C22: at every moment at most one active WebhookTrigger has a given
\* webhook_path, and a create request answered while an active trigger has
\* its path is answered 409 and leaves the rows as they are, with create
\* requests for one path in progress at the same time.
C22_OneActiveTriggerPerPath ==
  /\ [](\A row, other \in trigger_rows :
          (/\ row.webhook_path = other.webhook_path
           /\ row.is_active
           /\ other.is_active) => row = other)
  /\ [][\A c \in 1..MaxCreates :
          (/\ CreateAnswered(c)
           /\ creates'[c].code # 404
           /\ path_in_use(trigger_rows, creates'[c].webhook_path)) =>
            /\ creates'[c].code = 409
            /\ trigger_rows' = trigger_rows]_vars

\* without a second request in between, a duplicate path is answered 409
DuplicateRejected ==
  \E c \in DOMAIN creates : creates[c].code = 409

(***************************************************************************)
(* Properties of the rate limiter's window                                 *)
(***************************************************************************)
\* the connection whose request gets its response in this step
CheckedOn(c) == api_calls[c].busy /\ ~api_calls'[c].busy

\* C23: a call of check_rate_limit that is denied appends no entry: the set
\* it leaves holds the entries left by the eviction step.
C23_DeniedAppendsNothing ==
  [][\A c \in Connections :
       (CheckedOn(c) /\ last'.check.returned /\ ~last'.check.allowed) =>
         zsets'[api_calls[c].key_id] =
           zremrangebyscore(zsets[api_calls[c].key_id], 0,
                            api_calls[c].now - WINDOW_SECONDS)]_vars

\* the entries of a key's window at time t
WindowCount(z, t) == zcard(zremrangebyscore(z, 0, t - WINDOW_SECONDS))

\* a request gets its response in this step
AnsweredNow ==
  \/ handled' = handled + 1 /\ api_calls' = api_calls
  \/ \E c \in Connections : CheckedOn(c)

\* C29: a status query, and an execute request rejected for scope, unknown
\* or foreign workflow or inactive workflow, leave the number of entries in
\* the window of the caller's key as it was; and a status query that follows
\* a status query of the same key reports the same remaining value.
C29_NoBudgetWithoutExecution ==
  [][(/\ AnsweredNow
      /\ \/ last'.op = "rate_limit_status" /\ last'.response.code = 200
         \/ last'.op = "api_execute" /\ last'.response.code \in {400, 403, 404}) =>
       /\ \A k \in get_by_hash(Sha256Hex(last'.caller)) :
            WindowCount(zsets'[k], last'.verified_at) =
              WindowCount(zsets[k], last'.verified_at)
       /\ (/\ last.op = "rate_limit_status"
           /\ last.response.code = 200
           /\ last'.op = "rate_limit_status"
           /\ last.caller = last'.caller) =>
            last'.response.body.remaining = last.response.body.remaining]_vars

(***************************************************************************)
(* Properties of the workflow engine: edges to unknown ids                 *)
(***************************************************************************)
\* the edges of the list whose source and target are both ids of nodes
EdgesBetweenNodes ==
  SelectSeq(edges, LAMBDA e : e.source \in Range(nodes) /\ e.target \in Range(nodes))

\* the distinct sources named by the edges into node n
SourcesInto(n) ==
  {edges[i].source : i \in {j \in DOMAIN edges : edges[j].target = n}} \ {""}

\* C24: the edges whose source or target is no node of the workflow change
\* nothing: execute plans the order, and fails with the circular-dependency
\* error, exactly as it does for the workflow without those edges; and an
\* edge given twice counts once in the in-degree of its target.
C24_UnknownEdgesIgnored ==
  /\ pc \in {"loop", "returned"} =>
       LET plain == topological_sort(build_dag(nodes, EdgesBetweenNodes))
       IN  /\ plain.ok => /\ error # CircularMessage
                          /\ SelectSeq(sorted_node_ids, InNodeMap) = plain.order
           /\ ~plain.ok => error = CircularMessage
  /\ \A n \in Range(nodes) :
       Len(build_dag(nodes, edges).deps[n]) = Cardinality(SourcesInto(n))

(***************************************************************************)
(* Properties of the A2A task store                                        *)
(***************************************************************************)
\* no call of execute_task for task t is in progress
NoRunOf(t) == \A r \in runs : r.task_id # t

\* C26: for every task id, once the calls of execute_task and cancel_task on
\* it have returned, however they interleaved, the stored task record (what
\* a poll returns) has the status of the stored task context.
C26_RecordMatchesContext ==
  \A t \in TaskIds :
    (t \in DOMAIN contexts /\ NoRunOf(t)) =>
      /\ t \in DOMAIN tasks
      /\ tasks[t].status = contexts[t].status

\* a cancel that was answered 'cancelled' while execute_task was waiting for
\* the chat, and the chat has returned since
C26_Witness ==
  /\ task_reply.op = "cancel"
  /\ task_reply.returned.status = "cancelled"
  /\ task_reply.n = 2
  /\ NoRunOf(task_reply.task_id)
  /\ task_reply.task_id \in DOMAIN tasks
  /\ tasks[task_reply.task_id].status = "completed"

\* a bounded number of chat turns over two conversations
InitHistory ==
  EngineIdle /\ ChatInit /\ WebhookInit /\ ApiInit /\ A2AInit
  /\ ExecutorInit /\ TemplateInit
  /\ WorkerInit /\ TriggerInit /\ HistoryInit /\ ContextInit /\ ScheduleInit

SpecHistory == InitHistory /\ [][HistoryNext]_vars

\* how often a message with this role and content is in a message list
Occurrences(messages, role, content) ==
  Cardinality({k \in 1..Len(messages) :
                 messages[k] = LLMChatMessage(role, content)})

\* C27: the message list passed to the first LLM call of a turn starts with
\* the system prompt, ends with the new user message and contains the new
\* user message exactly once.
C27_NewMessageOnce ==
  llm_request # NoLlmRequest =>
    LET messages == llm_request.messages
    IN  /\ messages[1] = LLMChatMessage("system", system_prompt)
        /\ messages[Len(messages)] =
             LLMChatMessage("user", llm_request.user_message)
        /\ Occurrences(messages, "user", llm_request.user_message) = 1

\* what the code keeps of it: the list starts with the system prompt and ends
\* with the new user message
C27_StartsAndEnds ==
  llm_request # NoLlmRequest =>
    LET messages == llm_request.messages
    IN  /\ messages[1] = LLMChatMessage("system", system_prompt)
        /\ messages[Len(messages)] =
             LLMChatMessage("user", llm_request.user_message)

\* executions whose nodes may have any of the ids, 'trigger' among them
InitContext ==
  EngineIdle /\ ChatInit /\ WebhookInit /\ ApiInit /\ A2AInit
  /\ ExecutorInit /\ TemplateInit /\ WorkerInit /\ TriggerInit /\ HistoryInit
  /\ ContextInit /\ ScheduleInit

SpecContext == InitContext /\ [][ContextNext]_vars

\* C30: in the dict a node reads during an execution, the key 'trigger'
\* holds the execution's trigger payload, whatever ids the nodes have.
C30_TriggerKeyHoldsPayload ==
  "trigger" \in DOMAIN node_view =>
    node_view["trigger"] = wf_context.trigger_data

\* as long as no node with the id 'trigger' has stored a result, the key
\* holds the payload
C30_PayloadUntilNodeNamedTrigger ==
  ("trigger" \in DOMAIN node_view /\ "trigger" \notin DOMAIN wf_context._results)
    => node_view["trigger"] = wf_context.trigger_data

\* schedule triggers created, toggled and deleted through the routes, and
\* reconciled at any time
InitSchedule ==
  EngineIdle /\ ChatInit /\ WebhookInit /\ ApiInit /\ A2AInit
  /\ ExecutorInit /\ TemplateInit /\ WorkerInit /\ TriggerInit /\ HistoryInit
  /\ ContextInit /\ ScheduleInit

SpecSchedule == InitSchedule /\ [][ScheduleNext]_vars

\* the trigger is active in the database and its cron expression is one
\* the platform calls valid
ActiveAndValid(trigger_id) ==
  /\ schedule_rows[trigger_id].exists
  /\ schedule_rows[trigger_id].is_active
  /\ validate_cron_expression(schedule_rows[trigger_id].cron_expression)

\* C25: after every run of sync_schedule_triggers the schedule map has an
\* entry for a schedule trigger if and only if the trigger is active in the
\* database and its cron expression is valid.
C25_EntryIffActiveAndValid ==
  synced =>
    \A trigger_id \in ScheduleTriggerIds :
      (trigger_id \in DOMAIN beat_schedule) <=> ActiveAndValid(trigger_id)

\* what every run does keep: no entry for a trigger that is inactive or
\* deleted, and an entry exactly for the active triggers whose expression
\* celery's crontab takes
C25_EntryIffActiveAndCrontab ==
  synced =>
    \A trigger_id \in ScheduleTriggerIds :
      (trigger_id \in DOMAIN beat_schedule) <=>
        /\ schedule_rows[trigger_id].exists
        /\ schedule_rows[trigger_id].is_active
        /\ parse_cron_to_celery(schedule_rows[trigger_id].cron_expression) = "crontab"

====
